---------------------------- MODULE Spec2Model ----------------------------
(***************************************************************************)
(* The gRPC Echo Stream example: the streaming handlers of the server      *)
(* (EchoClientStream, EchoServerStream, EchoBidirectionalStreamSync,       *)
(* EchoBidirectionalStreamAsync), one session per behaviour, the server    *)
(* process, and the stream client: its main with the four test loops and   *)
(* its test functions; and the unary examples: the unary server's main     *)
(* and the unary client with its interceptor.                              *)
(*                                                                         *)
(* The transport is the environment: Recv delivers the next message of the *)
(* peer's stream, io.EOF once the stream is exhausted and closed, or an    *)
(* error at any time; Send succeeds or fails; the stream context may be    *)
(* cancelled at any time while the handler runs.                           *)
(***************************************************************************)
EXTENDS Integers, Sequences, FiniteSets, TLC

(* ------------------------------ bounds --------------------------------- *)

\* Longest peer stream whose payloads are chosen freely.
MaxLen == 3

\* Length of the flooding peer stream (more than the queue holds).
MaxFlood == 13

(* ------------------------- program constants --------------------------- *)

\* make(chan *stream.EchoRequest, 10)
QueueCap == 10

\* for i := 1; i <= 5; i++
FanOutCount == 5

\* quit := make(chan os.Signal, 1)
QuitCap == 1

(* ------------------------------ inputs --------------------------------- *)

Payloads == {"a", "b", "c"}

Pattern == <<"a", "b", "c">>

\* The flooding stream of n messages: a, b, c, a, b, c, ...
Flood(n) == [k \in 1..n |-> Pattern[((k - 1) % 3) + 1]]

\* All streams of at most n freely chosen payloads.
SeqsUpTo(n) == UNION {[1..k -> Payloads] : k \in 0..n}

Modes == {"ClientStream", "ServerStream", "Sync", "Async"}

\* What one Recv call can return: a message, io.EOF, or another error.
RecvOutcomes == {"msg", "eof", "err"}

(* ------------------------------ state ---------------------------------- *)

VARIABLES
    mode,       \* the handler this session runs
    inbound,    \* the peer's stream (for ServerStream: the one request)
    recvd,      \* number of messages Recv has returned so far
    pc,         \* position of the handler's own goroutine
    pcIn,       \* position of the ingress goroutine (Async)
    pcOut,      \* position of the egress goroutine (Async)
    messages,   \* EchoClientStream: var messages []string
    i,          \* EchoServerStream: loop variable
    req,        \* Sync: req of the current iteration
    reqIn,      \* Async ingress: req received, not yet put
    reqOut,     \* Async egress: req taken, not yet answered
    requestCh,  \* Async: buffered content of requestCh
    closed,     \* Async: requestCh has been closed
    closeCalls, \* Async: number of close(requestCh) calls so far
    cancelled,  \* streamServer.Context() is done
    sent,       \* the responses handed to Send / SendAndClose, in order
    recvErr,    \* some Recv returned an error other than io.EOF
    recvEOF,    \* some Recv returned io.EOF
    sendErr,    \* some Send returned an error
    result,     \* what the handler returned: "running", "nil" or "err"
    serving,    \* the stream server process is alive (in s.Serve)
    sigPending, \* stream client: a signal is buffered in sigCh
    ctxDone,    \* stream client: the shared context is cancelled
    pcSig,      \* stream client: position of the signal goroutine
    pcLoop,     \* stream client: position of each of the four test loops
    pcWaiter,   \* stream client: position of the wg.Wait goroutine
    doneClosed, \* stream client: the done channel is closed
    pcMain,     \* stream client: position of main
    timedOut,   \* stream client: main left its select by the timeout
    errLogged,  \* stream client: the loop has logged an error of its test
    tpc,        \* test function: position of its own goroutine
    tRes,       \* test function: "running", or what it returned
    tIdx,       \* test function: index of the message to send next
    closeSends, \* number of times the peer closed its send side
    cGot,       \* test function: the responses it has received, in order
    sPc,        \* bidirectional tests: position of the sender goroutine
    rPc,        \* bidirectional tests: position of the receiver goroutine
    errCh,      \* bidirectional tests: content of errCh
    tWaiter,    \* bidirectional tests: position of the wg.Wait goroutine
    tDone,      \* bidirectional tests: the done channel is closed
    usPc,       \* unary server: position of main
    srvPc,      \* unary server: position of the goroutine running Serve
    quit,       \* unary server: number of signals buffered in quit
    stopped,    \* unary server: GracefulStop has been called
    uProc,      \* unary server: "running", or how the process ended
    signalled,  \* unary server: SIGINT or SIGTERM has been sent to it
    cPc,        \* unary client: position of main
    iPc,        \* interceptorStat: position within the current call
    iMethod,    \* interceptorStat: method of the current call
    iCalls,     \* interceptorStat: invoker calls made in the current call
    iErr,       \* interceptorStat: err, what the invoker returned
    iRet,       \* interceptorStat: what it returned to its caller
    iLog        \* interceptorStat: the post-processing line it logged

\* Variables of one session of the stream server.
sessionVars == <<mode, inbound, recvd, pc, pcIn, pcOut, messages, i, req,
                 reqIn, reqOut, requestCh, closed, closeCalls, cancelled,
                 sent, recvErr, recvEOF, sendErr, result>>

\* Variables of the stream server: its session and its process.
serverVars == <<sessionVars, serving>>

\* Variables of the stream client's main.
mainVars == <<sigPending, ctxDone, pcSig, pcLoop, pcWaiter, doneClosed,
              pcMain, timedOut, errLogged>>

\* Variables of one call of a test function of the stream client.
testVars == <<tpc, tRes, tIdx, closeSends, cGot, sPc, rPc, errCh, tWaiter,
              tDone>>

\* Variables of the goroutines of the bidirectional test functions.
bidiVars == <<sPc, rPc, errCh, tWaiter, tDone>>

\* Variables of the stream client.
clientVars == <<mainVars, testVars>>

\* Variables of the unary server process.
unaryServerVars == <<usPc, srvPc, quit, stopped, uProc, signalled>>

\* Variables of the unary client and its interceptor.
unaryClientVars == <<cPc, iPc, iMethod, iCalls, iErr, iRet, iLog>>

\* Variables of the unary examples.
unaryVars == <<unaryServerVars, unaryClientVars>>

\* Variables of the stream examples.
streamVars == <<serverVars, clientVars>>

vars == <<streamVars, unaryVars>>

\* Variables of the session's transport and outcome.
ioVars == <<recvd, sent, recvErr, recvEOF, sendErr, result>>

\* Variables local to the Async handler.
asyncVars == <<pcIn, pcOut, reqIn, reqOut, requestCh, closed, closeCalls>>

\* Variables of the stream server that its peer does not write.
handlerVars == <<mode, pc, messages, i, req, cancelled, ioVars, asyncVars,
                 serving>>

NoReq == "-"

(* --------------------------- formatting -------------------------------- *)

\* fmt.Sprintf("Received %d messages: %v", len(messages), messages)
Summary(ms) == [fmt |-> "Received %d messages: %v", d |-> Len(ms), v |-> ms]

\* fmt.Sprintf("Echo #%d: %s", i, req.Message)
EchoN(n, m) == [fmt |-> "Echo #%d: %s", d |-> n, s |-> m]

\* fmt.Sprintf("Sync Echo: %s", req.Message)
SyncEcho(m) == [fmt |-> "Sync Echo: %s", s |-> m]

\* fmt.Sprintf("Async Echo (processed): %s", req.Message)
AsyncEcho(m) == [fmt |-> "Async Echo (processed): %s", s |-> m]

(* ----------------------------- transport ------------------------------- *)

\* streamServer.Recv(): the outcomes possible in the current state.
CanRecv(out) ==
    \/ out = "msg" /\ recvd < Len(inbound)
    \/ out = "eof" /\ recvd = Len(inbound) /\ closeSends > 0
    \/ out = "err"

\* The message a successful Recv returns.
NextMsg == inbound[recvd + 1]

(* ------------------------------- Init ---------------------------------- *)

\* The stream client's test loops: client stream, server stream,
\* bidirectional sync, bidirectional async.
Loops == 1..4

\* The stream client's main has started its goroutines and waits.
ClientStarted ==
    /\ sigPending = FALSE
    /\ ctxDone = FALSE
    /\ pcSig = "wait"
    /\ pcLoop = [k \in Loops |-> "check"]
    /\ pcWaiter = "idle"
    /\ doneClosed = FALSE
    /\ pcMain = "run"
    /\ timedOut = FALSE
    /\ errLogged = [k \in Loops |-> FALSE]

\* No test function has been called.
TestIdle ==
    /\ tpc = "idle"
    /\ tRes = "running"
    /\ tIdx = 1
    /\ cGot = <<>>
    /\ sPc = "idle"
    /\ rPc = "idle"
    /\ errCh = <<>>
    /\ tWaiter = "idle"
    /\ tDone = FALSE

\* The peer is not a test function: its stream is complete, it has closed
\* its send side.
NoTest ==
    /\ TestIdle
    /\ closeSends = 1

\* The session's own state before the handler runs.
SessionStart ==
    /\ recvd = 0
    /\ pc = "start"
    /\ pcIn = "idle"
    /\ pcOut = "idle"
    /\ messages = <<>>
    /\ i = 1
    /\ req = NoReq
    /\ reqIn = NoReq
    /\ reqOut = NoReq
    /\ requestCh = <<>>
    /\ closed = FALSE
    /\ closeCalls = 0
    /\ cancelled = FALSE
    /\ sent = <<>>
    /\ recvErr = FALSE
    /\ recvEOF = FALSE
    /\ sendErr = FALSE
    /\ result = "running"
    /\ serving = TRUE

(* --------------------------- unary examples ---------------------------- *)

\* The status codes a unary call of the examples can end with.
Codes == {"FailedPrecondition", "Unavailable", "DeadlineExceeded"}

\* A nil error.
NoErr == [kind |-> "nil", code |-> "-"]

\* An error status.FromError recognises, with its code.
StatusErr(c) == [kind |-> "status", code |-> c]

\* An error status.FromError does not recognise.
OtherErr == [kind |-> "other", code |-> "-"]

\* No error value yet: the call has not come that far.
NotYet == [kind |-> "none", code |-> "-"]

\* What the wrapped invoker can return.
InvokerErrors == {NoErr, OtherErr} \cup {StatusErr(c) : c \in Codes}

\* The unary server and the unary client have just been started.
UnaryStart ==
    /\ usPc = "spawn"
    /\ srvPc = "none"
    /\ quit = 0
    /\ stopped = FALSE
    /\ uProc = "running"
    /\ signalled = FALSE
    /\ cPc = "hello"
    /\ iPc = "idle"
    /\ iMethod = "-"
    /\ iCalls = 0
    /\ iErr = NotYet
    /\ iRet = NotYet
    /\ iLog = "-"

InitLocals ==
    /\ ClientStarted
    /\ NoTest
    /\ SessionStart
    /\ UnaryStart

Init ==
    /\ mode \in Modes
    /\ inbound \in SeqsUpTo(MaxLen) \cup {Flood(MaxFlood)}
    /\ mode = "ServerStream" => Len(inbound) = 1
    /\ Len(inbound) > MaxLen => mode = "Async"
    /\ InitLocals

(* ------------------------- EchoClientStream ---------------------------- *)

\* A receive loop that puts each new message in front of the others.
ClientStreamRecvPrepend(out) ==
    /\ mode = "ClientStream"
    /\ serving
    /\ UNCHANGED <<serving, clientVars, unaryVars>>
    /\ pc = "start"
    /\ result = "running"
    /\ CanRecv(out)
    /\ \/ /\ out = "msg"
          /\ messages' = <<NextMsg>> \o messages
          /\ recvd' = recvd + 1
          /\ UNCHANGED <<pc, recvErr, recvEOF, result>>
       \/ /\ out = "eof"
          /\ recvEOF' = TRUE
          /\ pc' = "respond"
          /\ UNCHANGED <<messages, recvd, recvErr, result>>
       \/ /\ out = "err"
          /\ recvErr' = TRUE
          /\ UNCHANGED recvEOF
          /\ result' = "err"
          /\ pc' = "done"
          /\ UNCHANGED <<messages, recvd>>
    /\ UNCHANGED <<mode, inbound, i, req, cancelled, sent, sendErr>>
    /\ UNCHANGED asyncVars

\* A receive loop that leaves the loop on any error, as on io.EOF, and goes
\* on to the summary.
ClientStreamRecvBreaks(out) ==
    /\ mode = "ClientStream"
    /\ serving
    /\ UNCHANGED <<serving, clientVars, unaryVars>>
    /\ pc = "start"
    /\ result = "running"
    /\ CanRecv(out)
    /\ \/ /\ out = "msg"
          /\ messages' = Append(messages, NextMsg)
          /\ recvd' = recvd + 1
          /\ UNCHANGED <<pc, recvErr, recvEOF, result>>
       \/ /\ out = "eof"
          /\ recvEOF' = TRUE
          /\ pc' = "respond"
          /\ UNCHANGED <<messages, recvd, recvErr, result>>
       \/ /\ out = "err"
          /\ recvErr' = TRUE
          /\ pc' = "respond"
          /\ UNCHANGED <<messages, recvd, recvEOF, result>>
    /\ UNCHANGED <<mode, inbound, i, req, cancelled, sent, sendErr>>
    /\ UNCHANGED asyncVars

\* One iteration of the receive loop.
ClientStreamRecv(out) ==
    /\ mode = "ClientStream"
    /\ serving
    /\ UNCHANGED <<serving, clientVars, unaryVars>>
    /\ pc = "start"
    /\ result = "running"
    /\ CanRecv(out)
    /\ \/ /\ out = "msg"
          /\ messages' = Append(messages, NextMsg)
          /\ recvd' = recvd + 1
          /\ UNCHANGED <<pc, recvErr, recvEOF, result>>
       \/ /\ out = "eof"
          /\ recvEOF' = TRUE
          /\ pc' = "respond"
          /\ UNCHANGED <<messages, recvd, recvErr, result>>
       \/ /\ out = "err"
          /\ recvErr' = TRUE
          /\ UNCHANGED recvEOF
          /\ result' = "err"
          /\ pc' = "done"
          /\ UNCHANGED <<messages, recvd>>
    /\ UNCHANGED <<mode, inbound, i, req, cancelled, sent, sendErr>>
    /\ UNCHANGED asyncVars

\* return streamServer.SendAndClose(response)
ClientStreamRespond(ok) ==
    /\ mode = "ClientStream"
    /\ serving
    /\ UNCHANGED <<serving, clientVars, unaryVars>>
    /\ pc = "respond"
    /\ sent' = Append(sent, Summary(messages))
    /\ sendErr' = ~ok
    /\ result' = IF ok THEN "nil" ELSE "err"
    /\ pc' = "done"
    /\ UNCHANGED <<mode, inbound, recvd, messages, i, req, cancelled, recvErr, recvEOF>>
    /\ UNCHANGED asyncVars

EchoClientStream ==
    \/ \E out \in RecvOutcomes : ClientStreamRecv(out)
    \/ \E ok \in BOOLEAN : ClientStreamRespond(ok)

(* ------------------------- EchoServerStream ---------------------------- *)

\* A loop that stops one response short.
LoopCondShort(n) == n < FanOutCount

\* for i := 1; i <= 5; i++ : the loop condition.
LoopCond(n) == n <= FanOutCount

\* A loop that counts from 0.
ServerStreamEnterZero ==
    /\ mode = "ServerStream"
    /\ serving
    /\ UNCHANGED <<serving, clientVars, unaryVars>>
    /\ pc = "start"
    /\ Len(inbound) >= 1
    /\ req' = inbound[1]
    /\ recvd' = 1
    /\ i' = 0
    /\ pc' = "loop"
    /\ UNCHANGED <<mode, inbound, messages, cancelled, sent, recvErr, recvEOF, sendErr,
                   result>>
    /\ UNCHANGED asyncVars

\* The handler is entered with the one request the framework received.
ServerStreamEnter ==
    /\ mode = "ServerStream"
    /\ serving
    /\ UNCHANGED <<serving, clientVars, unaryVars>>
    /\ pc = "start"
    /\ Len(inbound) >= 1
    /\ req' = inbound[1]
    /\ recvd' = 1
    /\ i' = 1
    /\ pc' = "loop"
    /\ UNCHANGED <<mode, inbound, messages, cancelled, sent, recvErr, recvEOF, sendErr,
                   result>>
    /\ UNCHANGED asyncVars

\* Loop body up to the Send: build response #i and send it.
ServerStreamSend(ok) ==
    /\ mode = "ServerStream"
    /\ serving
    /\ UNCHANGED <<serving, clientVars, unaryVars>>
    /\ pc = "loop"
    /\ LoopCond(i)
    /\ sent' = Append(sent, EchoN(i, req))
    /\ sendErr' = ~ok
    /\ IF ok
         THEN pc' = "sleep" /\ UNCHANGED result
         ELSE pc' = "done" /\ result' = "err"
    /\ UNCHANGED <<mode, inbound, recvd, messages, i, req, cancelled, recvErr, recvEOF>>
    /\ UNCHANGED asyncVars

\* time.Sleep(100 * time.Millisecond); i++
ServerStreamSleep ==
    /\ mode = "ServerStream"
    /\ serving
    /\ UNCHANGED <<serving, clientVars, unaryVars>>
    /\ pc = "sleep"
    /\ i' = i + 1
    /\ pc' = "loop"
    /\ UNCHANGED <<mode, inbound, messages, req, cancelled>>
    /\ UNCHANGED ioVars
    /\ UNCHANGED asyncVars

\* Loop condition false: return nil.
ServerStreamFinish ==
    /\ mode = "ServerStream"
    /\ serving
    /\ UNCHANGED <<serving, clientVars, unaryVars>>
    /\ pc = "loop"
    /\ ~LoopCond(i)
    /\ result' = "nil"
    /\ pc' = "done"
    /\ UNCHANGED <<mode, inbound, recvd, messages, i, req, cancelled, sent,
                   recvErr, recvEOF, sendErr>>
    /\ UNCHANGED asyncVars

EchoServerStream ==
    \/ ServerStreamEnter
    \/ \E ok \in BOOLEAN : ServerStreamSend(ok)
    \/ ServerStreamSleep
    \/ ServerStreamFinish

(* -------------------- EchoBidirectionalStreamSync ---------------------- *)

\* A loop that reads the next message without answering the current one.
SyncRecvNoReply(out) ==
    /\ mode = "Sync"
    /\ serving
    /\ UNCHANGED <<serving, clientVars, unaryVars>>
    /\ pc = "start"
    /\ result = "running"
    /\ CanRecv(out)
    /\ \/ /\ out = "msg"
          /\ req' = NextMsg
          /\ recvd' = recvd + 1
          /\ pc' = "start"
          /\ UNCHANGED <<recvErr, recvEOF, result>>
       \/ /\ out = "eof"
          /\ recvEOF' = TRUE
          /\ result' = "nil"
          /\ pc' = "done"
          /\ UNCHANGED <<req, recvd, recvErr>>
       \/ /\ out = "err"
          /\ recvErr' = TRUE
          /\ UNCHANGED recvEOF
          /\ result' = "err"
          /\ pc' = "done"
          /\ UNCHANGED <<req, recvd>>
    /\ UNCHANGED <<mode, inbound, messages, i, cancelled, sent, sendErr>>
    /\ UNCHANGED asyncVars

\* A loop without the io.EOF test: end of stream is returned as an error.
SyncRecvEofIsError(out) ==
    /\ mode = "Sync"
    /\ serving
    /\ UNCHANGED <<serving, clientVars, unaryVars>>
    /\ pc = "start"
    /\ result = "running"
    /\ CanRecv(out)
    /\ \/ /\ out = "msg"
          /\ req' = NextMsg
          /\ recvd' = recvd + 1
          /\ pc' = "send"
          /\ UNCHANGED <<recvErr, recvEOF, result>>
       \/ /\ out = "eof"
          /\ recvEOF' = TRUE
          /\ result' = "err"
          /\ pc' = "done"
          /\ UNCHANGED <<req, recvd, recvErr>>
       \/ /\ out = "err"
          /\ recvErr' = TRUE
          /\ UNCHANGED recvEOF
          /\ result' = "err"
          /\ pc' = "done"
          /\ UNCHANGED <<req, recvd>>
    /\ UNCHANGED <<mode, inbound, messages, i, cancelled, sent, sendErr>>
    /\ UNCHANGED asyncVars

\* Recv at the top of the loop.
SyncRecv(out) ==
    /\ mode = "Sync"
    /\ serving
    /\ UNCHANGED <<serving, clientVars, unaryVars>>
    /\ pc = "start"
    /\ result = "running"
    /\ CanRecv(out)
    /\ \/ /\ out = "msg"
          /\ req' = NextMsg
          /\ recvd' = recvd + 1
          /\ pc' = "send"
          /\ UNCHANGED <<recvErr, recvEOF, result>>
       \/ /\ out = "eof"
          /\ recvEOF' = TRUE
          /\ result' = "nil"
          /\ pc' = "done"
          /\ UNCHANGED <<req, recvd, recvErr>>
       \/ /\ out = "err"
          /\ recvErr' = TRUE
          /\ UNCHANGED recvEOF
          /\ result' = "err"
          /\ pc' = "done"
          /\ UNCHANGED <<req, recvd>>
    /\ UNCHANGED <<mode, inbound, messages, i, cancelled, sent, sendErr>>
    /\ UNCHANGED asyncVars

\* Build the response to req and send it.
SyncSend(ok) ==
    /\ mode = "Sync"
    /\ serving
    /\ UNCHANGED <<serving, clientVars, unaryVars>>
    /\ pc = "send"
    /\ sent' = Append(sent, SyncEcho(req))
    /\ sendErr' = ~ok
    /\ IF ok
         THEN pc' = "start" /\ UNCHANGED result
         ELSE pc' = "done" /\ result' = "err"
    /\ UNCHANGED <<mode, inbound, recvd, messages, i, req, cancelled, recvErr, recvEOF>>
    /\ UNCHANGED asyncVars

EchoBidirectionalStreamSync ==
    \/ \E out \in RecvOutcomes : SyncRecv(out)
    \/ \E ok \in BOOLEAN : SyncSend(ok)

(* -------------------- EchoBidirectionalStreamAsync --------------------- *)

\* close(requestCh) in the current state would panic: Go's close of an
\* already closed channel is a run-time panic, not a no-op.
ClosePanics == closed

\* A deferred close that runs after an explicit close on the same path.
CloseRequestChTwice ==
    /\ closed' = TRUE
    /\ closeCalls' = closeCalls + 2

\* defer close(requestCh): the ingress goroutine's exit closes the channel;
\* the buffered messages stay in it.
CloseRequestCh ==
    /\ closed' = TRUE
    /\ closeCalls' = closeCalls + 1

\* make(chan, 10); wg.Add(1); go ingress; wg.Add(1); go egress.
AsyncStart ==
    /\ mode = "Async"
    /\ serving
    /\ UNCHANGED <<serving, clientVars, unaryVars>>
    /\ pc = "start"
    /\ requestCh' = <<>>
    /\ closed' = FALSE
    /\ closeCalls' = 0
    /\ pcIn' = "recv"
    /\ pcOut' = "select"
    /\ pc' = "wait"
    /\ UNCHANGED <<mode, inbound, messages, i, req, reqIn, reqOut, cancelled>>
    /\ UNCHANGED ioVars

\* An ingress that acknowledges each message itself, with a Send of its own.
IngressRecvAck(out) ==
    /\ mode = "Async"
    /\ serving
    /\ UNCHANGED <<serving, clientVars, unaryVars>>
    /\ pcIn = "recv"
    /\ CanRecv(out)
    /\ \/ /\ out = "msg"
          /\ reqIn' = NextMsg
          /\ recvd' = recvd + 1
          /\ sent' = Append(sent, AsyncEcho(NextMsg))
          /\ pcIn' = "put"
          /\ UNCHANGED <<closed, closeCalls, recvErr, recvEOF>>
       \/ /\ out = "eof"
          /\ recvEOF' = TRUE
          /\ pcIn' = "done"
          /\ CloseRequestCh
          /\ UNCHANGED <<reqIn, recvd, recvErr, sent>>
       \/ /\ out = "err"
          /\ recvErr' = TRUE
          /\ UNCHANGED recvEOF
          /\ pcIn' = "done"
          /\ CloseRequestCh
          /\ UNCHANGED <<reqIn, recvd, sent>>
    /\ UNCHANGED <<mode, inbound, pc, pcOut, messages, i, req, reqOut,
                   requestCh, cancelled, sendErr, result>>

\* Ingress: Recv at the top of the loop.  On io.EOF or an error the goroutine
\* returns, and its deferred close(requestCh) and wg.Done() run.
IngressRecv(out) ==
    /\ mode = "Async"
    /\ serving
    /\ UNCHANGED <<serving, clientVars, unaryVars>>
    /\ pcIn = "recv"
    /\ CanRecv(out)
    /\ \/ /\ out = "msg"
          /\ reqIn' = NextMsg
          /\ recvd' = recvd + 1
          /\ pcIn' = "put"
          /\ UNCHANGED <<closed, closeCalls, recvErr, recvEOF>>
       \/ /\ out = "eof"
          /\ recvEOF' = TRUE
          /\ pcIn' = "done"
          /\ CloseRequestCh
          /\ UNCHANGED <<reqIn, recvd, recvErr>>
       \/ /\ out = "err"
          /\ recvErr' = TRUE
          /\ UNCHANGED recvEOF
          /\ pcIn' = "done"
          /\ CloseRequestCh
          /\ UNCHANGED <<reqIn, recvd>>
    /\ UNCHANGED <<mode, inbound, pc, pcOut, messages, i, req, reqOut,
                   requestCh, cancelled, sent, sendErr, result>>

\* A put whose capacity check is off by one.
IngressPutOneMore ==
    /\ mode = "Async"
    /\ serving
    /\ UNCHANGED <<serving, clientVars, unaryVars>>
    /\ pcIn = "put"
    /\ Len(requestCh) <= QueueCap
    /\ requestCh' = Append(requestCh, reqIn)
    /\ reqIn' = NoReq
    /\ pcIn' = "recv"
    /\ UNCHANGED <<mode, inbound, pc, pcOut, messages, i, req, reqOut, closed,
                   closeCalls, cancelled>>
    /\ UNCHANGED ioVars

\* A put that is ready even when the buffer already holds QueueCap messages.
IngressPutOverfull ==
    /\ mode = "Async"
    /\ serving
    /\ UNCHANGED <<serving, clientVars, unaryVars>>
    /\ pcIn = "put"
    /\ Len(requestCh) <= QueueCap
    /\ requestCh' = Append(requestCh, reqIn)
    /\ reqIn' = NoReq
    /\ pcIn' = "recv"
    /\ UNCHANGED <<mode, inbound, pc, pcOut, messages, i, req, reqOut, closed, closeCalls,
                   cancelled>>
    /\ UNCHANGED ioVars

\* A put that never blocks: when the buffer is full the message is dropped
\* (a select with a default case).
IngressPutLossy ==
    /\ mode = "Async"
    /\ serving
    /\ UNCHANGED <<serving, clientVars, unaryVars>>
    /\ pcIn = "put"
    /\ requestCh' = IF Len(requestCh) < QueueCap
                      THEN Append(requestCh, reqIn)
                      ELSE requestCh
    /\ reqIn' = NoReq
    /\ pcIn' = "recv"
    /\ UNCHANGED <<mode, inbound, pc, pcOut, messages, i, req, reqOut, closed, closeCalls,
                   cancelled>>
    /\ UNCHANGED ioVars

\* Ingress select, case requestCh <- req: ready while the buffer has room.
IngressPut ==
    /\ mode = "Async"
    /\ serving
    /\ UNCHANGED <<serving, clientVars, unaryVars>>
    /\ pcIn = "put"
    /\ Len(requestCh) < QueueCap
    /\ requestCh' = Append(requestCh, reqIn)
    /\ reqIn' = NoReq
    /\ pcIn' = "recv"
    /\ UNCHANGED <<mode, inbound, pc, pcOut, messages, i, req, reqOut, closed, closeCalls,
                   cancelled>>
    /\ UNCHANGED ioVars

\* A ctx.Done() case that returns without the close of requestCh.
IngressCtxDoneNoClose ==
    /\ mode = "Async"
    /\ serving
    /\ UNCHANGED <<serving, clientVars, unaryVars>>
    /\ pcIn = "put"
    /\ cancelled
    /\ pcIn' = "done"
    /\ UNCHANGED <<mode, inbound, pc, pcOut, messages, i, req, reqIn, reqOut,
                   requestCh, closed, closeCalls, cancelled>>
    /\ UNCHANGED ioVars

\* A put written as a plain channel send: it has no ctx.Done() case.
IngressCtxDoneMissing ==
    /\ mode = "Async"
    /\ serving
    /\ UNCHANGED <<serving, clientVars, unaryVars>>
    /\ pcIn = "put"
    /\ cancelled
    /\ FALSE
    /\ UNCHANGED vars

\* Ingress select, case <-ctx.Done(): return (deferred close and wg.Done).
IngressCtxDone ==
    /\ mode = "Async"
    /\ serving
    /\ UNCHANGED <<serving, clientVars, unaryVars>>
    /\ pcIn = "put"
    /\ cancelled
    /\ pcIn' = "done"
    /\ CloseRequestCh
    /\ UNCHANGED <<mode, inbound, pc, pcOut, messages, i, req, reqIn, reqOut,
                   requestCh, cancelled>>
    /\ UNCHANGED ioVars

\* A take that removes the newest buffered message instead of the oldest.
EgressTakeNewest ==
    /\ mode = "Async"
    /\ serving
    /\ UNCHANGED <<serving, clientVars, unaryVars>>
    /\ pcOut = "select"
    /\ requestCh # <<>>
    /\ reqOut' = requestCh[Len(requestCh)]
    /\ requestCh' = SubSeq(requestCh, 1, Len(requestCh) - 1)
    /\ pcOut' = "sleep"
    /\ UNCHANGED <<mode, inbound, pc, pcIn, messages, i, req, reqIn, closed, closeCalls,
                   cancelled>>
    /\ UNCHANGED ioVars

\* Egress select, case req, ok := <-requestCh with ok: a buffered message.
EgressTake ==
    /\ mode = "Async"
    /\ serving
    /\ UNCHANGED <<serving, clientVars, unaryVars>>
    /\ pcOut = "select"
    /\ requestCh # <<>>
    /\ reqOut' = Head(requestCh)
    /\ requestCh' = Tail(requestCh)
    /\ pcOut' = "sleep"
    /\ UNCHANGED <<mode, inbound, pc, pcIn, messages, i, req, reqIn, closed, closeCalls,
                   cancelled>>
    /\ UNCHANGED ioVars

\* An egress that stops as soon as the channel is closed, whatever is still
\* buffered.
EgressClosedDropsBuffered ==
    /\ mode = "Async"
    /\ serving
    /\ UNCHANGED <<serving, clientVars, unaryVars>>
    /\ pcOut = "select"
    /\ closed
    /\ pcOut' = "done"
    /\ UNCHANGED <<mode, inbound, pc, pcIn, messages, i, req, reqIn, reqOut,
                   requestCh, closed, closeCalls, cancelled>>
    /\ UNCHANGED ioVars

\* An egress that takes an empty buffer for a closed channel.
EgressClosedOnEmpty ==
    /\ mode = "Async"
    /\ serving
    /\ UNCHANGED <<serving, clientVars, unaryVars>>
    /\ pcOut = "select"
    /\ requestCh = <<>>
    /\ pcOut' = "done"
    /\ UNCHANGED <<mode, inbound, pc, pcIn, messages, i, req, reqIn, reqOut,
                   requestCh, closed, closeCalls, cancelled>>
    /\ UNCHANGED ioVars

\* Egress select, case req, ok := <-requestCh with !ok: closed and drained.
EgressClosed ==
    /\ mode = "Async"
    /\ serving
    /\ UNCHANGED <<serving, clientVars, unaryVars>>
    /\ pcOut = "select"
    /\ requestCh = <<>>
    /\ closed
    /\ pcOut' = "done"
    /\ UNCHANGED <<mode, inbound, pc, pcIn, messages, i, req, reqIn, reqOut,
                   requestCh, closed, closeCalls, cancelled>>
    /\ UNCHANGED ioVars

\* Egress select, case <-ctx.Done(): return.
EgressCtxDone ==
    /\ mode = "Async"
    /\ serving
    /\ UNCHANGED <<serving, clientVars, unaryVars>>
    /\ pcOut = "select"
    /\ cancelled
    /\ pcOut' = "done"
    /\ UNCHANGED <<mode, inbound, pc, pcIn, messages, i, req, reqIn, reqOut,
                   requestCh, closed, closeCalls, cancelled>>
    /\ UNCHANGED ioVars

\* Egress: time.Sleep(200 * time.Millisecond)
EgressSleep ==
    /\ mode = "Async"
    /\ serving
    /\ UNCHANGED <<serving, clientVars, unaryVars>>
    /\ pcOut = "sleep"
    /\ pcOut' = "send"
    /\ UNCHANGED <<mode, inbound, pc, pcIn, messages, i, req, reqIn, reqOut,
                   requestCh, closed, closeCalls, cancelled>>
    /\ UNCHANGED ioVars

\* An egress that logs a send error and goes on with the next message.
EgressSendContinue(ok) ==
    /\ mode = "Async"
    /\ serving
    /\ UNCHANGED <<serving, clientVars, unaryVars>>
    /\ pcOut = "send"
    /\ sent' = Append(sent, AsyncEcho(reqOut))
    /\ sendErr' = (sendErr \/ ~ok)
    /\ reqOut' = NoReq
    /\ pcOut' = "select"
    /\ UNCHANGED <<mode, inbound, recvd, pc, pcIn, messages, i, req, reqIn,
                   requestCh, closed, closeCalls, cancelled, recvErr, recvEOF,
                   result>>

\* Egress: build the response to req and send it; a send error returns.
EgressSend(ok) ==
    /\ mode = "Async"
    /\ serving
    /\ UNCHANGED <<serving, clientVars, unaryVars>>
    /\ pcOut = "send"
    /\ sent' = Append(sent, AsyncEcho(reqOut))
    /\ sendErr' = ~ok
    /\ reqOut' = NoReq
    /\ pcOut' = IF ok THEN "select" ELSE "done"
    /\ UNCHANGED <<mode, inbound, recvd, pc, pcIn, messages, i, req, reqIn,
                   requestCh, closed, closeCalls, cancelled, recvErr, recvEOF, result>>

\* A handler whose WaitGroup counts the egress goroutine only.
AsyncWaitEgressOnly ==
    /\ mode = "Async"
    /\ serving
    /\ UNCHANGED <<serving, clientVars, unaryVars>>
    /\ pc = "wait"
    /\ pcOut = "done"
    /\ result' = "nil"
    /\ pc' = "done"
    /\ UNCHANGED <<mode, inbound, recvd, messages, i, req, cancelled, sent,
                   recvErr, recvEOF, sendErr>>
    /\ UNCHANGED asyncVars

\* wg.Wait() returns once both goroutines are done; return nil.
AsyncWait ==
    /\ mode = "Async"
    /\ serving
    /\ UNCHANGED <<serving, clientVars, unaryVars>>
    /\ pc = "wait"
    /\ pcIn = "done"
    /\ pcOut = "done"
    /\ result' = "nil"
    /\ pc' = "done"
    /\ UNCHANGED <<mode, inbound, recvd, messages, i, req, cancelled, sent,
                   recvErr, recvEOF, sendErr>>
    /\ UNCHANGED asyncVars

Ingress ==
    \/ \E out \in RecvOutcomes : IngressRecv(out)
    \/ IngressPut
    \/ IngressCtxDone

Egress ==
    \/ EgressTake
    \/ EgressClosed
    \/ EgressCtxDone
    \/ EgressSleep
    \/ \E ok \in BOOLEAN : EgressSend(ok)

EchoBidirectionalStreamAsync ==
    \/ AsyncStart
    \/ Ingress
    \/ Egress
    \/ AsyncWait

(* ------------------------------ context -------------------------------- *)

\* The stream's context is cancelled (peer reset, deadline, server stop).
Cancel ==
    /\ result = "running"
    /\ serving
    /\ UNCHANGED <<serving, clientVars, unaryVars>>
    /\ ~cancelled
    /\ cancelled' = TRUE
    /\ UNCHANGED <<mode, inbound, pc, messages, i, req>>
    /\ UNCHANGED ioVars
    /\ UNCHANGED asyncVars

(* --------------------------- server process ---------------------------- *)

\* main of the stream server blocks in s.Serve(lis) and installs no signal
\* handler: a SIGINT or SIGTERM has Go's default effect, the process exits
\* at once, whatever its handlers are doing.
ServerSignal ==
    /\ serving
    /\ serving' = FALSE
    /\ UNCHANGED sessionVars
    /\ UNCHANGED <<clientVars, unaryVars>>

Next ==
    \/ EchoClientStream
    \/ EchoServerStream
    \/ EchoBidirectionalStreamSync
    \/ EchoBidirectionalStreamAsync
    \/ Cancel
    \/ ServerSignal

Spec == Init /\ [][Next]_vars

(* ------------------ the flooded pipeline, fault free ------------------- *)

\* One Async session fed MaxFlood messages and then io.EOF, with no transport
\* error and no cancellation.
FloodInit ==
    /\ mode = "Async"
    /\ inbound = Flood(MaxFlood)
    /\ InitLocals

FloodIngress ==
    \/ IngressRecv("msg")
    \/ IngressRecv("eof")
    \/ IngressPut

FloodEgress ==
    \/ EgressTake
    \/ EgressClosed
    \/ EgressSleep
    \/ EgressSend(TRUE)

FloodMain ==
    \/ AsyncStart
    \/ AsyncWait

FloodNext ==
    \/ FloodMain
    \/ FloodIngress
    \/ FloodEgress

\* The Go scheduler runs every runnable goroutine eventually.
FloodSpec ==
    /\ FloodInit
    /\ [][FloodNext]_vars
    /\ WF_vars(FloodMain)
    /\ WF_vars(FloodIngress)
    /\ WF_vars(FloodEgress)

(* ------------------ the Async session under cancellation --------------- *)

\* Async sessions only.
CancelInit ==
    /\ mode = "Async"
    /\ inbound \in SeqsUpTo(MaxLen) \cup {Flood(MaxFlood)}
    /\ InitLocals

\* The transport fails every Recv once the stream's context is cancelled.
CancelIngressRecv ==
    \E out \in RecvOutcomes :
        /\ cancelled => out = "err"
        /\ IngressRecv(out)

\* The ingress steps that need nothing from the peer: the put, the ctx.Done
\* case, and the Recv that fails after cancellation.
IngressUnblocked ==
    \/ IngressPut
    \/ IngressCtxDone
    \/ (cancelled /\ IngressRecv("err"))

AsyncMain ==
    \/ AsyncStart
    \/ AsyncWait

CancelNext ==
    \/ AsyncMain
    \/ CancelIngressRecv
    \/ IngressPut
    \/ IngressCtxDone
    \/ Egress
    \/ Cancel

\* The Go scheduler runs every runnable goroutine eventually; a Send returns;
\* a Recv returns once the context is cancelled.
CancelSpec ==
    /\ CancelInit
    /\ [][CancelNext]_vars
    /\ WF_vars(AsyncMain)
    /\ WF_vars(IngressUnblocked)
    /\ WF_vars(Egress)

(* ----------------------- stream client: main --------------------------- *)

\* What a test function returns: nil or an error.
TestResults == {"nil", "err"}

\* The process is alive until main returns.
ClientAlive == pcMain # "completed"

\* A SIGINT or SIGTERM is delivered into sigCh.
ClientSignal ==
    /\ ClientAlive
    /\ pcSig = "wait"
    /\ ~sigPending
    /\ sigPending' = TRUE
    /\ UNCHANGED <<ctxDone, pcSig, pcLoop, pcWaiter, doneClosed, pcMain,
                   timedOut,
                   errLogged>>
    /\ UNCHANGED <<serverVars, testVars, unaryVars>>

\* The signal goroutine: sig := <-sigCh; cancel().
SigHandler ==
    /\ ClientAlive
    /\ pcSig = "wait"
    /\ sigPending
    /\ sigPending' = FALSE
    /\ ctxDone' = TRUE
    /\ pcSig' = "done"
    /\ UNCHANGED <<pcLoop, pcWaiter, doneClosed, pcMain, timedOut,
                   errLogged>>
    /\ UNCHANGED <<serverVars, testVars, unaryVars>>

\* A loop without the ctx.Done() check at its top.
LoopCheckIgnoresCtx(k) ==
    /\ ClientAlive
    /\ pcLoop[k] = "check"
    /\ pcLoop' = [pcLoop EXCEPT ![k] = "test"]
    /\ UNCHANGED <<sigPending, ctxDone, pcSig, pcWaiter, doneClosed, pcMain,
                   timedOut, errLogged>>
    /\ UNCHANGED <<serverVars, testVars, unaryVars>>

\* Top of a test loop: select { case <-ctx.Done(): return; default: }, then
\* the test function is called.
LoopCheck(k) ==
    /\ ClientAlive
    /\ pcLoop[k] = "check"
    /\ pcLoop' = [pcLoop EXCEPT ![k] = IF ctxDone THEN "done" ELSE "test"]
    /\ UNCHANGED <<sigPending, ctxDone, pcSig, pcWaiter, doneClosed, pcMain,
                   timedOut,
                   errLogged>>
    /\ UNCHANGED <<serverVars, testVars, unaryVars>>

\* A loop that gives up when its test fails.
TestReturnStopsOnError(k, r) ==
    /\ ClientAlive
    /\ pcLoop[k] = "test"
    /\ pcLoop' = [pcLoop EXCEPT ![k] = IF r = "err" THEN "done" ELSE "wait"]
    /\ errLogged' = [errLogged EXCEPT ![k] = @ \/ (r = "err" /\ ~ctxDone)]
    /\ UNCHANGED <<sigPending, ctxDone, pcSig, pcWaiter, doneClosed, pcMain,
                   timedOut>>
    /\ UNCHANGED <<serverVars, testVars, unaryVars>>

\* The test function returns r: on an error with the context cancelled the
\* loop returns; on an error otherwise the error is logged; then the loop
\* goes to the wait before the next iteration.
TestReturn(k, r) ==
    /\ ClientAlive
    /\ pcLoop[k] = "test"
    /\ pcLoop' = [pcLoop EXCEPT
                    ![k] = IF r = "err" /\ ctxDone THEN "done" ELSE "wait"]
    /\ errLogged' = [errLogged EXCEPT ![k] = @ \/ (r = "err" /\ ~ctxDone)]
    /\ UNCHANGED <<sigPending, ctxDone, pcSig, pcWaiter, doneClosed, pcMain,
                   timedOut>>
    /\ UNCHANGED <<serverVars, testVars, unaryVars>>

\* Wait before the next iteration, case <-ctx.Done(): return.
LoopWaitCtx(k) ==
    /\ ClientAlive
    /\ pcLoop[k] = "wait"
    /\ ctxDone
    /\ pcLoop' = [pcLoop EXCEPT ![k] = "done"]
    /\ UNCHANGED <<sigPending, ctxDone, pcSig, pcWaiter, doneClosed, pcMain,
                   timedOut,
                   errLogged>>
    /\ UNCHANGED <<serverVars, testVars, unaryVars>>

\* Wait before the next iteration, case <-time.After(...): next iteration.
LoopWaitTimer(k) ==
    /\ ClientAlive
    /\ pcLoop[k] = "wait"
    /\ pcLoop' = [pcLoop EXCEPT ![k] = "check"]
    /\ UNCHANGED <<sigPending, ctxDone, pcSig, pcWaiter, doneClosed, pcMain,
                   timedOut,
                   errLogged>>
    /\ UNCHANGED <<serverVars, testVars, unaryVars>>

\* main: <-ctx.Done() returns; done is made and the wg.Wait goroutine started.
MainCtxDone ==
    /\ pcMain = "run"
    /\ ctxDone
    /\ pcMain' = "select"
    /\ pcWaiter' = "wait"
    /\ UNCHANGED <<sigPending, ctxDone, pcSig, pcLoop, doneClosed, timedOut,
                   errLogged>>
    /\ UNCHANGED <<serverVars, testVars, unaryVars>>

\* The wg.Wait goroutine: all four loops have called wg.Done; close(done).
WaiterDone ==
    /\ ClientAlive
    /\ pcWaiter = "wait"
    /\ \A k \in Loops : pcLoop[k] = "done"
    /\ doneClosed' = TRUE
    /\ pcWaiter' = "done"
    /\ UNCHANGED <<sigPending, ctxDone, pcSig, pcLoop, pcMain, timedOut,
                   errLogged>>
    /\ UNCHANGED <<serverVars, testVars, unaryVars>>

\* main's select, case <-done: "Client shutdown completed".
MainDone ==
    /\ pcMain = "select"
    /\ doneClosed
    /\ pcMain' = "completed"
    /\ timedOut' = FALSE
    /\ UNCHANGED <<sigPending, ctxDone, pcSig, pcLoop, pcWaiter, doneClosed,
                   errLogged>>
    /\ UNCHANGED <<serverVars, testVars, unaryVars>>

\* A select that waits on done alone.
MainTimeoutMissing ==
    /\ pcMain = "select"
    /\ FALSE
    /\ UNCHANGED vars

\* main's select, case <-time.After(10 * time.Second): "Client shutdown
\* completed".
MainTimeout ==
    /\ pcMain = "select"
    /\ pcMain' = "completed"
    /\ timedOut' = TRUE
    /\ UNCHANGED <<sigPending, ctxDone, pcSig, pcLoop, pcWaiter, doneClosed,
                   errLogged>>
    /\ UNCHANGED <<serverVars, testVars, unaryVars>>

TestLoop ==
    \E k \in Loops :
        \/ LoopCheck(k)
        \/ \E r \in TestResults : TestReturn(k, r)
        \/ LoopWaitCtx(k)
        \/ LoopWaitTimer(k)

ClientMain ==
    \/ MainCtxDone
    \/ MainDone
    \/ MainTimeout

\* The server side is not part of the client process: one idle session.
ClientInit ==
    /\ mode = "ClientStream"
    /\ inbound = <<>>
    /\ InitLocals

ClientNext ==
    \/ ClientSignal
    \/ SigHandler
    \/ TestLoop
    \/ WaiterDone
    \/ ClientMain

\* The Go scheduler runs the signal goroutine, the wg.Wait goroutine and main
\* when they can move, and main's timer fires; a test function need not
\* return.
ClientSpec ==
    /\ ClientInit
    /\ [][ClientNext]_vars
    /\ WF_vars(SigHandler)
    /\ WF_vars(WaiterDone)
    /\ WF_vars(ClientMain)

(* ------------------ stream client: the test functions ------------------ *)

\* messages of testClientStream, as main calls it (clientID 1).
ClientStreamMsgs ==
    << "Hello from client-1 message-1",
       "Hello from client-1 message-2",
       "Hello from client-1 message-3" >>

\* req.Message of testServerStream, as main calls it (clientID 2).
ServerStreamReq == "Hello from client-2 for server stream"

\* The responses that reached the peer: those whose Send succeeded.
Delivered ==
    IF sendErr THEN SubSeq(sent, 1, Len(sent) - 1) ELSE sent

\* What a Recv or CloseAndRecv of the test function can return: the next
\* response, io.EOF once the handler has returned nil and every response is
\* consumed, or an error (the handler's, or the transport's).
CanGet(out) ==
    \/ out = "msg" /\ Len(cGot) < Len(Delivered)
    \/ out = "eof" /\ Len(cGot) = Len(Delivered) /\ result = "nil"
    \/ out = "err"

\* The test function returns r.
TestReturns(r) ==
    /\ tpc' = "returned"
    /\ tRes' = r

\* testClientStream: the stream is created.
CsOpen ==
    /\ mode = "ClientStream"
    /\ tpc = "idle"
    /\ tpc' = "check"
    /\ UNCHANGED <<tRes, tIdx, closeSends, cGot, bidiVars>>
    /\ UNCHANGED <<inbound, handlerVars, mainVars, unaryVars>>

\* testClientStream: creating the stream fails; the error is returned.
CsOpenFails ==
    /\ mode = "ClientStream"
    /\ tpc = "idle"
    /\ TestReturns("err")
    /\ UNCHANGED <<tIdx, closeSends, cGot, bidiVars>>
    /\ UNCHANGED <<inbound, handlerVars, mainVars, unaryVars>>

\* A send loop without the ctx.Done() check.
CsCheckMissing ==
    /\ mode = "ClientStream"
    /\ tpc = "check"
    /\ tpc' = "send"
    /\ UNCHANGED <<tRes, tIdx, closeSends, cGot, bidiVars>>
    /\ UNCHANGED <<inbound, handlerVars, mainVars, unaryVars>>

\* testClientStream: select { case <-ctx.Done(): return ctx.Err(); default: }
CsCheck ==
    /\ mode = "ClientStream"
    /\ tpc = "check"
    /\ IF ctxDone
         THEN TestReturns("ctx")
         ELSE tpc' = "send" /\ UNCHANGED tRes
    /\ UNCHANGED <<tIdx, closeSends, cGot, bidiVars>>
    /\ UNCHANGED <<inbound, handlerVars, mainVars, unaryVars>>

\* testClientStream: streamClient.Send of message tIdx.
CsSend(ok) ==
    /\ mode = "ClientStream"
    /\ tpc = "send"
    /\ IF ok
         THEN /\ inbound' = Append(inbound, ClientStreamMsgs[tIdx])
              /\ tpc' = "sleep"
              /\ UNCHANGED tRes
         ELSE /\ TestReturns("err")
              /\ UNCHANGED inbound
    /\ UNCHANGED <<tIdx, closeSends, cGot, bidiVars>>
    /\ UNCHANGED <<handlerVars, mainVars, unaryVars>>

\* A range loop that stops one message early.
CsSleepEarly ==
    /\ mode = "ClientStream"
    /\ tpc = "sleep"
    /\ tIdx' = tIdx + 1
    /\ tpc' = IF tIdx' >= Len(ClientStreamMsgs) THEN "close" ELSE "check"
    /\ UNCHANGED <<tRes, closeSends, cGot, bidiVars>>
    /\ UNCHANGED <<inbound, handlerVars, mainVars, unaryVars>>

\* testClientStream: time.Sleep, then the next message or the end of the
\* range loop.
CsSleep ==
    /\ mode = "ClientStream"
    /\ tpc = "sleep"
    /\ tIdx' = tIdx + 1
    /\ tpc' = IF tIdx' > Len(ClientStreamMsgs) THEN "close" ELSE "check"
    /\ UNCHANGED <<tRes, closeSends, cGot, bidiVars>>
    /\ UNCHANGED <<inbound, handlerVars, mainVars, unaryVars>>

\* testClientStream: CloseAndRecv closes the send side ...
CsClose ==
    /\ mode = "ClientStream"
    /\ tpc = "close"
    /\ closeSends' = closeSends + 1
    /\ tpc' = "recv"
    /\ UNCHANGED <<tRes, tIdx, cGot, bidiVars>>
    /\ UNCHANGED <<inbound, handlerVars, mainVars, unaryVars>>

\* ... and waits for the one response: the response and nil when the handler
\* has returned nil, an error otherwise.
CsRecv(out) ==
    /\ mode = "ClientStream"
    /\ tpc = "recv"
    /\ \/ /\ out = "msg"
          /\ CanGet("msg")
          /\ result = "nil"
          /\ cGot' = Append(cGot, Delivered[Len(cGot) + 1])
          /\ TestReturns("nil")
       \/ /\ out = "err"
          /\ TestReturns("err")
          /\ UNCHANGED cGot
    /\ UNCHANGED <<tIdx, closeSends, bidiVars>>
    /\ UNCHANGED <<inbound, handlerVars, mainVars, unaryVars>>

testClientStream ==
    \/ CsOpen
    \/ CsOpenFails
    \/ CsCheck
    \/ \E ok \in BOOLEAN : CsSend(ok)
    \/ CsSleep
    \/ CsClose
    \/ \E out \in {"msg", "err"} : CsRecv(out)

\* testServerStream: EchoServerStream(ctx, req) sends the request and closes
\* the send side.
SsOpen ==
    /\ mode = "ServerStream"
    /\ tpc = "idle"
    /\ inbound' = Append(inbound, ServerStreamReq)
    /\ closeSends' = closeSends + 1
    /\ tpc' = "check"
    /\ UNCHANGED <<tRes, tIdx, cGot, bidiVars>>
    /\ UNCHANGED <<handlerVars, mainVars, unaryVars>>

\* testServerStream: creating the stream fails; the error is returned.
SsOpenFails ==
    /\ mode = "ServerStream"
    /\ tpc = "idle"
    /\ TestReturns("err")
    /\ UNCHANGED <<tIdx, closeSends, cGot, bidiVars>>
    /\ UNCHANGED <<inbound, handlerVars, mainVars, unaryVars>>

\* testServerStream: select { case <-ctx.Done(): return ctx.Err(); default: }
SsCheck ==
    /\ mode = "ServerStream"
    /\ tpc = "check"
    /\ IF ctxDone
         THEN TestReturns("ctx")
         ELSE tpc' = "recv" /\ UNCHANGED tRes
    /\ UNCHANGED <<tIdx, closeSends, cGot, bidiVars>>
    /\ UNCHANGED <<inbound, handlerVars, mainVars, unaryVars>>

\* A receive loop without the io.EOF case: the end of the stream is returned
\* as an error.
SsRecvEofIsError(out) ==
    /\ mode = "ServerStream"
    /\ tpc = "recv"
    /\ CanGet(out)
    /\ \/ /\ out = "msg"
          /\ cGot' = Append(cGot, Delivered[Len(cGot) + 1])
          /\ tpc' = "check"
          /\ UNCHANGED tRes
       \/ /\ out \in {"eof", "err"}
          /\ TestReturns("err")
          /\ UNCHANGED cGot
    /\ UNCHANGED <<tIdx, closeSends, bidiVars>>
    /\ UNCHANGED <<inbound, handlerVars, mainVars, unaryVars>>

\* testServerStream: streamClient.Recv(): a response, io.EOF (break, return
\* nil) or an error.
SsRecv(out) ==
    /\ mode = "ServerStream"
    /\ tpc = "recv"
    /\ CanGet(out)
    /\ \/ /\ out = "msg"
          /\ cGot' = Append(cGot, Delivered[Len(cGot) + 1])
          /\ tpc' = "check"
          /\ UNCHANGED tRes
       \/ /\ out = "eof"
          /\ TestReturns("nil")
          /\ UNCHANGED cGot
       \/ /\ out = "err"
          /\ TestReturns("err")
          /\ UNCHANGED cGot
    /\ UNCHANGED <<tIdx, closeSends, bidiVars>>
    /\ UNCHANGED <<inbound, handlerVars, mainVars, unaryVars>>

testServerStream ==
    \/ SsOpen
    \/ SsOpenFails
    \/ SsCheck
    \/ \E out \in RecvOutcomes : SsRecv(out)

(* ------------- stream client: main, with the loops scheduled ----------- *)

\* The steps of test loop k that do not wait for its test function.
LoopSteps(k) ==
    \/ LoopCheck(k)
    \/ LoopWaitCtx(k)
    \/ LoopWaitTimer(k)

\* As ClientSpec, and the Go scheduler also runs each test loop when it can
\* move and its timer fires; a test function still need not return.
LoopSpec ==
    /\ ClientInit
    /\ [][ClientNext]_vars
    /\ WF_vars(SigHandler)
    /\ WF_vars(WaiterDone)
    /\ WF_vars(ClientMain)
    /\ \A k \in Loops : WF_vars(LoopSteps(k))

(* ----------- stream client: the bidirectional test functions ----------- *)

\* errCh := make(chan error, 2)
ErrChCap == 2

\* messages of the sender goroutine of testBidirectionalStreamSync (main
\* calls it with clientID 3) and of testBidirectionalStreamAsync (clientID 4).
BidiMsgs ==
    IF mode = "Sync"
      THEN << "Sync message 1 from client-3",
              "Sync message 2 from client-3",
              "Sync message 3 from client-3" >>
      ELSE << "Async message 1 from client-4",
              "Async message 2 from client-4",
              "Async message 3 from client-4" >>

\* The two test functions have the same code but for their strings and the
\* sender's delay.
BidiTest == mode \in {"Sync", "Async"}

\* The stream is created; on success the sender, the receiver and the
\* wg.Wait goroutine are started and the function goes to its select.
BiOpen(ok) ==
    /\ BidiTest
    /\ tpc = "idle"
    /\ IF ok
         THEN /\ sPc' = "check"
              /\ rPc' = "check"
              /\ tWaiter' = "wait"
              /\ tpc' = "select"
              /\ UNCHANGED tRes
         ELSE /\ TestReturns("err")
              /\ UNCHANGED <<sPc, rPc, tWaiter>>
    /\ UNCHANGED <<tIdx, closeSends, cGot, errCh, tDone>>
    /\ UNCHANGED <<inbound, handlerVars, mainVars, unaryVars>>

\* Sender: select { case <-ctx.Done(): errCh <- ctx.Err(); return; default: }
SndCheck ==
    /\ BidiTest
    /\ sPc = "check"
    /\ sPc' = IF ctxDone THEN "putctx" ELSE "send"
    /\ UNCHANGED <<tpc, tRes, tIdx, closeSends, cGot, rPc, errCh, tWaiter,
                   tDone>>
    /\ UNCHANGED <<inbound, handlerVars, mainVars, unaryVars>>

\* Sender: streamClient.Send of message tIdx; on an error, errCh <- the
\* wrapped error.
SndSend(ok) ==
    /\ BidiTest
    /\ sPc = "send"
    /\ IF ok
         THEN /\ inbound' = Append(inbound, BidiMsgs[tIdx])
              /\ sPc' = "sleep"
         ELSE /\ sPc' = "puterr"
              /\ UNCHANGED inbound
    /\ UNCHANGED <<tpc, tRes, tIdx, closeSends, cGot, rPc, errCh, tWaiter,
                   tDone>>
    /\ UNCHANGED <<handlerVars, mainVars, unaryVars>>

\* Sender: time.Sleep, then the next message or the end of the range loop.
SndSleep ==
    /\ BidiTest
    /\ sPc = "sleep"
    /\ tIdx' = tIdx + 1
    /\ sPc' = IF tIdx' > Len(BidiMsgs) THEN "exit" ELSE "check"
    /\ UNCHANGED <<tpc, tRes, closeSends, cGot, rPc, errCh, tWaiter, tDone>>
    /\ UNCHANGED <<inbound, handlerVars, mainVars, unaryVars>>

\* A sender that reports an error and goes on with its loop.
SndPutNoReturn ==
    /\ BidiTest
    /\ sPc \in {"putctx", "puterr"}
    /\ Len(errCh) < ErrChCap
    /\ errCh' = Append(errCh, IF sPc = "putctx" THEN "ctx" ELSE "err")
    /\ sPc' = "sleep"
    /\ UNCHANGED <<tpc, tRes, tIdx, closeSends, cGot, rPc, tWaiter, tDone>>
    /\ UNCHANGED <<inbound, handlerVars, mainVars, unaryVars>>

\* Sender: errCh <- err, ready while errCh has room; then return.
SndPut ==
    /\ BidiTest
    /\ sPc \in {"putctx", "puterr"}
    /\ Len(errCh) < ErrChCap
    /\ errCh' = Append(errCh, IF sPc = "putctx" THEN "ctx" ELSE "err")
    /\ sPc' = "exit"
    /\ UNCHANGED <<tpc, tRes, tIdx, closeSends, cGot, rPc, tWaiter, tDone>>
    /\ UNCHANGED <<inbound, handlerVars, mainVars, unaryVars>>

\* A sender without the deferred CloseSend.
SndExitNoClose ==
    /\ BidiTest
    /\ sPc = "exit"
    /\ sPc' = "done"
    /\ UNCHANGED <<tpc, tRes, tIdx, closeSends, cGot, rPc, errCh, tWaiter,
                   tDone>>
    /\ UNCHANGED <<inbound, handlerVars, mainVars, unaryVars>>

\* Sender returns: defer streamClient.CloseSend(), defer wg.Done().
SndExit ==
    /\ BidiTest
    /\ sPc = "exit"
    /\ closeSends' = closeSends + 1
    /\ sPc' = "done"
    /\ UNCHANGED <<tpc, tRes, tIdx, cGot, rPc, errCh, tWaiter, tDone>>
    /\ UNCHANGED <<inbound, handlerVars, mainVars, unaryVars>>

Sender ==
    \/ SndCheck
    \/ \E ok \in BOOLEAN : SndSend(ok)
    \/ SndSleep
    \/ SndPut
    \/ SndExit

\* Receiver: select { case <-ctx.Done(): errCh <- ctx.Err(); return;
\* default: }
RcvCheck ==
    /\ BidiTest
    /\ rPc = "check"
    /\ rPc' = IF ctxDone THEN "putctx" ELSE "recv"
    /\ UNCHANGED <<tpc, tRes, tIdx, closeSends, cGot, sPc, errCh, tWaiter,
                   tDone>>
    /\ UNCHANGED <<inbound, handlerVars, mainVars, unaryVars>>

\* Receiver: streamClient.Recv(): a response (logged), io.EOF (return, with
\* wg.Done), or an error (errCh <- the wrapped error).
RcvRecv(out) ==
    /\ BidiTest
    /\ rPc = "recv"
    /\ CanGet(out)
    /\ \/ /\ out = "msg"
          /\ cGot' = Append(cGot, Delivered[Len(cGot) + 1])
          /\ rPc' = "check"
       \/ /\ out = "eof"
          /\ rPc' = "done"
          /\ UNCHANGED cGot
       \/ /\ out = "err"
          /\ rPc' = "puterr"
          /\ UNCHANGED cGot
    /\ UNCHANGED <<tpc, tRes, tIdx, closeSends, sPc, errCh, tWaiter, tDone>>
    /\ UNCHANGED <<inbound, handlerVars, mainVars, unaryVars>>

\* Receiver: errCh <- err, ready while errCh has room; then return, with
\* wg.Done.
RcvPut ==
    /\ BidiTest
    /\ rPc \in {"putctx", "puterr"}
    /\ Len(errCh) < ErrChCap
    /\ errCh' = Append(errCh, IF rPc = "putctx" THEN "ctx" ELSE "err")
    /\ rPc' = "done"
    /\ UNCHANGED <<tpc, tRes, tIdx, closeSends, cGot, sPc, tWaiter, tDone>>
    /\ UNCHANGED <<inbound, handlerVars, mainVars, unaryVars>>

Receiver ==
    \/ RcvCheck
    \/ \E out \in RecvOutcomes : RcvRecv(out)
    \/ RcvPut

\* The wg.Wait goroutine: both goroutines have called wg.Done; close(done).
BiWaiter ==
    /\ BidiTest
    /\ tWaiter = "wait"
    /\ sPc = "done"
    /\ rPc = "done"
    /\ tDone' = TRUE
    /\ tWaiter' = "done"
    /\ UNCHANGED <<tpc, tRes, tIdx, closeSends, cGot, sPc, rPc, errCh>>
    /\ UNCHANGED <<inbound, handlerVars, mainVars, unaryVars>>

\* The function's select, case <-done: return nil.
BiSelectDone ==
    /\ BidiTest
    /\ tpc = "select"
    /\ tDone
    /\ TestReturns("nil")
    /\ UNCHANGED <<tIdx, closeSends, cGot, bidiVars>>
    /\ UNCHANGED <<inbound, handlerVars, mainVars, unaryVars>>

\* The function's select, case err := <-errCh: return err.
BiSelectErr ==
    /\ BidiTest
    /\ tpc = "select"
    /\ errCh # <<>>
    /\ errCh' = Tail(errCh)
    /\ TestReturns(Head(errCh))
    /\ UNCHANGED <<tIdx, closeSends, cGot, sPc, rPc, tWaiter, tDone>>
    /\ UNCHANGED <<inbound, handlerVars, mainVars, unaryVars>>

\* The function's select, case <-ctx.Done(): return ctx.Err().
BiSelectCtx ==
    /\ BidiTest
    /\ tpc = "select"
    /\ ctxDone
    /\ TestReturns("ctx")
    /\ UNCHANGED <<tIdx, closeSends, cGot, bidiVars>>
    /\ UNCHANGED <<inbound, handlerVars, mainVars, unaryVars>>

\* A select takes any of its ready cases.
BiSelect ==
    \/ BiSelectDone
    \/ BiSelectErr
    \/ BiSelectCtx

testBidirectionalStream ==
    \/ \E ok \in BOOLEAN : BiOpen(ok)
    \/ Sender
    \/ Receiver
    \/ BiWaiter
    \/ BiSelect

\* One call of testBidirectionalStreamSync or testBidirectionalStreamAsync
\* on a new stream, served by the handler of the same name.
BidiInit ==
    /\ mode \in {"Sync", "Async"}
    /\ inbound = <<>>
    /\ closeSends = 0
    /\ ClientStarted
    /\ TestIdle
    /\ SessionStart
    /\ UnaryStart

\* The test function and its goroutines, the handler with every outcome of
\* its transport, the cancellation of the stream's context on the server,
\* and the signal that cancels the client's context.
BidiNext ==
    \/ testBidirectionalStream
    \/ EchoBidirectionalStreamSync
    \/ EchoBidirectionalStreamAsync
    \/ Cancel
    \/ ClientSignal
    \/ SigHandler

BidiSpec == BidiInit /\ [][BidiNext]_vars

(* ------------- a test function against its handler, fault free --------- *)

\* testClientStream against EchoClientStream, or testServerStream against
\* EchoServerStream: the stream is empty and open until the test function
\* writes to it.
E2EInit ==
    /\ mode \in {"ClientStream", "ServerStream"}
    /\ inbound = <<>>
    /\ closeSends = 0
    /\ ClientStarted
    /\ TestIdle
    /\ SessionStart
    /\ UnaryStart

\* The test function, with no transport error and no cancellation.
E2EClient ==
    \/ CsOpen
    \/ CsCheck
    \/ CsSend(TRUE)
    \/ CsSleep
    \/ CsClose
    \/ CsRecv("msg")
    \/ SsOpen
    \/ SsCheck
    \/ SsRecv("msg")
    \/ SsRecv("eof")

\* The handler, with no transport error and no cancellation.
E2EServer ==
    \/ ClientStreamRecv("msg")
    \/ ClientStreamRecv("eof")
    \/ ClientStreamRespond(TRUE)
    \/ ServerStreamEnter
    \/ ServerStreamSend(TRUE)
    \/ ServerStreamSleep
    \/ ServerStreamFinish

E2ENext ==
    \/ E2EClient
    \/ E2EServer

\* The Go schedulers of both processes run every runnable goroutine
\* eventually, and the transport delivers.
E2ESpec ==
    /\ E2EInit
    /\ [][E2ENext]_vars
    /\ WF_vars(E2EClient)
    /\ WF_vars(E2EServer)

(* ------- a test function against its handler, faults and cancellation --- *)

\* testClientStream against EchoClientStream, or testServerStream against
\* EchoServerStream, with every outcome of the transport on both sides, the
\* cancellation of the stream's context on the server, and the signal that
\* cancels the client's context.
StreamTestNext ==
    \/ testClientStream
    \/ testServerStream
    \/ EchoClientStream
    \/ EchoServerStream
    \/ Cancel
    \/ ClientSignal
    \/ SigHandler

StreamTestSpec == E2EInit /\ [][StreamTestNext]_vars

(* ======================== properties of the handlers =================== *)

\* C1. EchoClientStream: when the peer's stream m1..mn ends with io.EOF and
\* no Recv failed, the handler has performed exactly one send, a summary
\* whose count is n and whose list is m1..mn in receipt order; before the
\* end of the stream nothing is sent.
C1_CollectSummary ==
    mode = "ClientStream" =>
        /\ Len(sent) <= 1
        /\ pc = "start" => sent = <<>>
        /\ (pc = "done" /\ ~recvErr) =>
              /\ Len(sent) = 1
              /\ sent[1].fmt = "Received %d messages: %v"
              /\ sent[1].d = Len(inbound)
              /\ sent[1].v = inbound

C1_Witness ==
    /\ mode = "ClientStream"
    /\ pc = "done"
    /\ result = "nil"
    /\ inbound = <<"a", "b", "c">>
    /\ Len(sent) = 1
    /\ sent[1].d = 3

\* C2. EchoBidirectionalStreamSync: the number of sends never exceeds the
\* number of receives and lags it by at most one; a Recv is attempted only
\* when every received message has been answered; the k-th response is
\* derived from the k-th received message; when the handler has returned
\* there are exactly as many sends as receives.
C2_LockStep ==
    mode = "Sync" =>
        /\ Len(sent) <= recvd
        /\ recvd <= Len(sent) + 1
        /\ pc = "send" => recvd = Len(sent) + 1
        /\ pc \in {"start", "done"} => recvd = Len(sent)
        /\ \A k \in 1..Len(sent) :
              sent[k] = [fmt |-> "Sync Echo: %s", s |-> inbound[k]]

C2_Witness ==
    /\ mode = "Sync"
    /\ result = "nil"
    /\ recvd = 3
    /\ Len(sent) = 3
    /\ inbound[1] # inbound[2]

\* C3 as stated: whenever EchoServerStream has returned, exactly K = 5 sends
\* have occurred.
C3_AlwaysFiveSends ==
    (mode = "ServerStream" /\ pc = "done") => Len(sent) = 5

\* C3 amended. EchoServerStream never performs more than K = 5 sends; when
\* no send fails it returns nil after exactly 5 sends, cancelled or not; a
\* failed send ends the sequence at that send.
C3_FanOutCount ==
    mode = "ServerStream" =>
        /\ Len(sent) <= 5
        /\ result = "nil" => (Len(sent) = 5 /\ ~sendErr)
        /\ (pc = "done" /\ ~sendErr) => (result = "nil" /\ Len(sent) = 5)
        /\ result = "err" => sendErr

C3_Witness ==
    /\ mode = "ServerStream"
    /\ result = "nil"
    /\ cancelled
    /\ Len(sent) = 5

\* C4. EchoServerStream: the responses sent are tagged #1, #2, ... without
\* gap or repeat, each derived from the request; when a send fails at tag i
\* the responses handed to the transport are exactly #1..#i.
C4_FanOutOrder ==
    mode = "ServerStream" =>
        /\ \A k \in 1..Len(sent) :
              sent[k] = [fmt |-> "Echo #%d: %s", d |-> k, s |-> inbound[1]]
        /\ result = "err" => (Len(sent) = i /\ i >= 1)

C4_Witness ==
    /\ mode = "ServerStream"
    /\ result = "err"
    /\ sendErr
    /\ Len(sent) = 3
    /\ sent[3].d = 3

\* C5. EchoBidirectionalStreamAsync: requestCh never holds more than
\* C = 10 messages; while it holds C messages and the ingress is at its put,
\* every step leaves the ingress at the put with its message and the buffer
\* not grown, except that the egress may take the oldest message, or, once
\* the context is cancelled, the ingress may return.
C5_Backpressure ==
    /\ [](Len(requestCh) <= QueueCap)
    /\ [][(mode = "Async" /\ pcIn = "put" /\ Len(requestCh) = QueueCap) =>
            \/ /\ pcIn' = "put"
               /\ reqIn' = reqIn
               /\ requestCh' = requestCh
            \/ /\ pcIn' = "put"
               /\ reqIn' = reqIn
               /\ reqOut' = Head(requestCh)
               /\ requestCh' = Tail(requestCh)
            \/ /\ cancelled
               /\ pcIn' = "done"
               /\ requestCh' = requestCh]_vars

C5_Witness ==
    /\ mode = "Async"
    /\ pcIn = "put"
    /\ reqIn # NoReq
    /\ Len(requestCh) = QueueCap
    /\ ~cancelled

\* C6. EchoBidirectionalStreamAsync: the responses sent are, in order, the
\* responses to a prefix of the messages received: response k is derived
\* from request k, and no more responses are sent than messages received.
C6_PipelineFifo ==
    mode = "Async" =>
        /\ Len(sent) <= recvd
        /\ \A k \in 1..Len(sent) :
              sent[k] = [fmt |-> "Async Echo (processed): %s", s |-> inbound[k]]

C6_Witness ==
    /\ mode = "Async"
    /\ Len(sent) = 3
    /\ Len(requestCh) >= 2
    /\ inbound[1] # inbound[2]
    /\ inbound[2] # inbound[3]

\* C7. In every mode, once the context is cancelled no further send is
\* attempted: a step taken in a cancelled session leaves the sequence of
\* sends unchanged.
C7_NoSendAfterCancel == [][cancelled => sent' = sent]_vars

C9_FloodCompletes ==
    <>(/\ result = "nil"
       /\ Len(sent) = MaxFlood
       /\ \A k \in 1..MaxFlood : sent[k].s = inbound[k])

\* On some schedule the ingress is blocked at its put by the full queue.
C9_Witness ==
    /\ pcIn = "put"
    /\ Len(requestCh) = QueueCap
    /\ recvd > QueueCap
    /\ sent = <<>>

\* C10. In every mode, when a Recv or a Send has failed with an error, the
\* handler's return value is that error, not nil.
C10_ErrorsSurfaced ==
    (result # "running" /\ (recvErr \/ sendErr)) => result = "err"

\* C11. In every mode, once a Send has returned an error no further send is
\* attempted: a step of a session whose send failed leaves the sequence of
\* sends unchanged, whatever is still buffered or remaining.
C11_SendErrorTerminal == [][sendErr => (sent' = sent /\ sendErr')]_vars

C11_Witness ==
    /\ mode = "Async"
    /\ sendErr
    /\ pcOut = "done"
    /\ Len(requestCh) >= 2
    /\ result = "nil"

\* C12. EchoBidirectionalStreamAsync: once the egress goroutine has stopped
\* on a send error, the ingress goroutine is never left blocked at its put:
\* it can always leave the put without the peer and without an external
\* cancellation, because the session itself released it.
C12_SendErrorStopsIngress ==
    (mode = "Async" /\ sendErr /\ pcOut = "done" /\ pcIn = "put") =>
        ENABLED (IngressPut \/ IngressCtxDone)

\* C13. EchoBidirectionalStreamAsync: once a Recv of the ingress goroutine
\* has failed, cancellation has reached the egress goroutine and the
\* messages still buffered in requestCh are discarded: none of them is taken
\* out of the queue and no send is attempted for them.
C13_RecvErrorDiscards ==
    [][(mode = "Async" /\ recvErr /\ requestCh # <<>>) =>
          requestCh' = requestCh]_vars

\* C14. EchoBidirectionalStreamAsync: from every reachable state in which
\* the context is cancelled (Recv failing from then on), both goroutines
\* eventually terminate and the handler returns, also when the ingress is
\* at its put with the queue full or the egress is waiting on an empty queue.
C14_CancelTerminates ==
    cancelled ~> (result = "nil" /\ pcIn = "done" /\ pcOut = "done")

C14_Witness ==
    /\ cancelled
    /\ result = "running"
    /\ pcIn = "put"
    /\ Len(requestCh) = QueueCap
    /\ pcOut = "done"

\* C15. Within one session a step performs at most one send; in
\* EchoBidirectionalStreamAsync every send is a step of the egress goroutine
\* at its Send and every receive is a step of the ingress goroutine at its
\* Recv, and neither step moves the other goroutine; in the other modes
\* the handler's own goroutine is the only one there is.
C15_SendRecvRoles ==
    [][/\ Len(sent') <= Len(sent) + 1
       /\ (mode = "Async" /\ sent' # sent) =>
             (pcOut = "send" /\ pcIn' = pcIn /\ recvd' = recvd)
       /\ (mode = "Async" /\ recvd' # recvd) =>
             (pcIn = "recv" /\ pcOut' = pcOut /\ sent' = sent)
       /\ (mode # "Async" /\ (sent' # sent \/ recvd' # recvd)) =>
             (pcIn = "idle" /\ pcOut = "idle")]_vars

C15_Witness ==
    /\ mode = "Async"
    /\ pcIn = "recv"
    /\ pcOut = "send"
    /\ recvd < Len(inbound)
    /\ Len(sent) >= 1

\* C16. EchoBidirectionalStreamAsync has returned only when both goroutines
\* have terminated; from then on no step touches the queue, sends or
\* receives.
C16_NoStageOutlives ==
    /\ []((mode = "Async" /\ result # "running") =>
             (pcIn = "done" /\ pcOut = "done" /\ closed))
    /\ [][(mode = "Async" /\ result # "running") =>
             UNCHANGED <<pcIn, pcOut, requestCh, closed, closeCalls, sent,
                         recvd>>]_vars

C16_Witness ==
    /\ mode = "Async"
    /\ result = "nil"
    /\ pcIn = "done"
    /\ pcOut = "done"
    /\ requestCh # <<>>

\* C18. In EchoClientStream, EchoBidirectionalStreamSync and
\* EchoBidirectionalStreamAsync, once Recv has reported io.EOF no further
\* Recv is made, downstream is closed (the summary is sent and the stream
\* closed, the Sync handler has returned, requestCh is closed), and when the
\* handler has returned without a send error its result is nil.
C18_EofIsNormal ==
    /\ [](recvEOF =>
            /\ mode \in {"ClientStream", "Sync", "Async"}
            /\ ~recvErr
            /\ mode = "ClientStream" => pc \in {"respond", "done"}
            /\ mode = "Sync" => result = "nil"
            /\ mode = "Async" => (pcIn = "done" /\ closed)
            /\ (result # "running" /\ ~sendErr) => result = "nil")
    /\ [][recvEOF => (recvd' = recvd /\ recvErr' = recvErr)]_vars

C18_Witness ==
    /\ mode = "Async"
    /\ recvEOF
    /\ ~sendErr
    /\ ~cancelled
    /\ result = "nil"
    /\ Len(sent) = 3

\* C19 as stated: calling close() on the session's queue a second time does
\* not raise an error: in every state where requestCh has been closed,
\* another close(requestCh) would not panic.
C19_SecondCloseNoError ==
    (mode = "Async" /\ closeCalls >= 1) => ~ClosePanics

\* C19 amended. The session's queue is closed at most once, so the second
\* close, which would panic, never happens; the close leaves the buffered
\* messages in the queue, and a message buffered in the closed queue leaves
\* it only by the egress taking it, oldest first.
C19_CloseOnceKeepsItems ==
    /\ [](closeCalls <= 1 /\ (closed <=> closeCalls = 1))
    /\ [][closeCalls' # closeCalls =>
             (~ClosePanics /\ closed' /\ requestCh' = requestCh)]_vars
    /\ [][(closed /\ requestCh # <<>>) =>
             \/ requestCh' = requestCh
             \/ /\ requestCh' = Tail(requestCh)
                /\ reqOut' = Head(requestCh)
                /\ pcOut = "select"]_vars

C19_Witness ==
    /\ mode = "Async"
    /\ closeCalls = 1
    /\ Len(requestCh) >= 2
    /\ pcOut = "sleep"
    /\ Len(sent) >= 1
    /\ ~cancelled

\* C20. Stream client: once a signal is in sigCh the shared context is
\* cancelled and main eventually reaches "Client shutdown completed", also
\* when a test function never returns; main reaches it only with the
\* context cancelled, and either by the done channel, closed after all four
\* loops have finished, or by the timeout.
C20_ClientShutdownCompletes ==
    /\ sigPending ~> (ctxDone /\ pcMain = "completed")
    /\ [](pcMain # "run" => ctxDone)
    /\ [](pcMain = "completed" =>
            \/ timedOut
            \/ doneClosed /\ \A k \in Loops : pcLoop[k] = "done")
    /\ [](doneClosed => \A k \in Loops : pcLoop[k] = "done")

C20_Witness ==
    /\ pcMain = "completed"
    /\ timedOut
    /\ ctxDone
    /\ pcLoop[4] = "test"
    /\ ~doneClosed

\* C21. Graceful shutdown of the stream server: when the server process has
\* stopped on an interrupt signal, no streaming handler was cut off, every
\* handler that had started has returned.
C21_ServerStopsOrderly ==
    ~serving => (pc = "start" \/ result # "running")

\* C25. EchoBidirectionalStreamAsync, no cancellation and no send error:
\* once requestCh is closed, the messages answered so far followed by the
\* message the egress holds and the k buffered ones are exactly the messages
\* received, in order; the egress stops only on the closed and empty queue;
\* and it does stop, with every received message answered.
C25_CloseKeepsBuffered ==
    /\ []((mode = "Async" /\ closed /\ ~cancelled /\ ~sendErr) =>
            LET pending == (IF reqOut = NoReq THEN <<>> ELSE <<reqOut>>)
                              \o requestCh
            IN  /\ Len(sent) + Len(pending) = recvd
                /\ \A k \in 1..Len(sent) : sent[k].s = inbound[k]
                /\ \A k \in 1..Len(pending) :
                      pending[k] = inbound[Len(sent) + k])
    /\ [][(pcOut # "done" /\ pcOut' = "done" /\ ~cancelled /\ ~sendErr') =>
            (closed /\ requestCh = <<>> /\ reqOut = NoReq)]_vars
    /\ (closed /\ ~cancelled /\ ~sendErr) ~>
            \/ cancelled
            \/ sendErr
            \/ (pcOut = "done" /\ requestCh = <<>> /\ Len(sent) = recvd)

\* The queue was closed with QueueCap messages buffered, and the egress has
\* since stopped on the drained queue with all of them sent.
C25_Witness ==
    /\ mode = "Async"
    /\ pcOut = "done"
    /\ ~cancelled
    /\ ~sendErr
    /\ closed
    /\ requestCh = <<>>
    /\ Len(sent) = MaxFlood

\* C26. requestCh of EchoBidirectionalStreamAsync is closed exactly once per
\* session: it is closed exactly when the ingress goroutine has returned,
\* by the step in which the ingress returns, whichever way it returns;
\* a closed queue never grows and the ingress is never at its put with
\* the queue closed, so neither close nor put ever panics.
C26_ClosedOnceByIngress ==
    /\ [](mode = "Async" =>
            /\ closeCalls \in {0, 1}
            /\ (closeCalls = 1) <=> (pcIn = "done")
            /\ closed <=> (pcIn = "done")
            /\ ~(closed /\ pcIn = "put")
            /\ result # "running" => closeCalls = 1)
    /\ [][closeCalls' # closeCalls =>
            /\ ~ClosePanics
            /\ mode = "Async"
            /\ pcIn \in {"recv", "put"}
            /\ pcIn' = "done"
            /\ pcOut' = pcOut]_vars
    /\ [][closed => Len(requestCh') <= Len(requestCh)]_vars

\* The ingress has left through the ctx.Done() case of its put, with the
\* queue full, and the queue is closed.
C26_Witness ==
    /\ mode = "Async"
    /\ pcIn = "done"
    /\ closeCalls = 1
    /\ cancelled
    /\ ~recvEOF
    /\ ~recvErr
    /\ Len(requestCh) = QueueCap

\* C27. EchoBidirectionalStreamAsync: the messages received and not yet
\* handed to Send are the buffered ones, the one the ingress holds for its
\* put and the one the egress holds during its delay, so the number received
\* exceeds the number of sends by at most QueueCap + 2 = 12.
C27_LeadBound ==
    mode = "Async" =>
        /\ recvd - Len(sent) =
              Len(requestCh) + (IF reqIn = NoReq THEN 0 ELSE 1)
                             + (IF reqOut = NoReq THEN 0 ELSE 1)
        /\ recvd - Len(sent) <= QueueCap + 2

\* The lead is exactly QueueCap + 2 while a further message is on its way.
C27_Witness ==
    /\ mode = "Async"
    /\ recvd - Len(sent) = QueueCap + 2
    /\ Len(requestCh) = QueueCap
    /\ pcIn = "put"
    /\ pcOut = "sleep"
    /\ recvd < Len(inbound)

\* C28. EchoClientStream: when a Recv has failed with an error other than
\* io.EOF, the handler has returned that error and has sent nothing, no
\* summary of the messages received before the failure, and it sends
\* nothing afterwards.
C28_CollectSendsNothingOnError ==
    /\ []((mode = "ClientStream" /\ recvErr) =>
            /\ sent = <<>>
            /\ ~sendErr
            /\ ~recvEOF
            /\ pc = "done"
            /\ result = "err")
    /\ [][(mode = "ClientStream" /\ recvErr) =>
            (sent' = sent /\ result' = result)]_vars

\* The Recv failed after two messages had been collected.
C28_Witness ==
    /\ mode = "ClientStream"
    /\ recvErr
    /\ Len(messages) = 2
    /\ recvd < Len(inbound)
    /\ result = "err"
    /\ sent = <<>>

(* ===================== properties of the stream client ================= *)

\* C22. Each of the four test loops repeats its test until the context is
\* cancelled: a loop returns only when the context is cancelled; a test that
\* fails while the context is not cancelled is logged and sends its loop to
\* the wait before the next iteration, and from that wait, and from the top
\* of the loop, an uncancelled loop goes on to its next test.
C22_LoopsRunUntilCancelled ==
    [][\A k \in Loops :
          /\ (pcLoop[k] # "done" /\ pcLoop'[k] = "done") => ctxDone
          /\ (~errLogged[k] /\ errLogged'[k]) =>
                (~ctxDone /\ pcLoop[k] = "test" /\ pcLoop'[k] = "wait")
          /\ (pcLoop[k] = "wait" /\ pcLoop'[k] # "wait" /\ ~ctxDone) =>
                pcLoop'[k] = "check"
          /\ (pcLoop[k] = "check" /\ pcLoop'[k] # "check" /\ ~ctxDone) =>
                pcLoop'[k] = "test"]_vars

\* Every loop has had a failed test and is running its test again, with the
\* context not cancelled.
C22_Witness ==
    /\ ~ctxDone
    /\ \A k \in Loops : errLogged[k] /\ pcLoop[k] = "test"

\* C23. testClientStream against EchoClientStream, with no transport error
\* and no cancellation: the send side is closed only after all 3 messages
\* were sent, the test never holds more than one response, and it returns,
\* with nil, having sent exactly its 3 messages in order and received
\* exactly one response, the summary of 3 messages in the order sent.
C23_ClientStreamEndToEnd ==
    /\ [](mode = "ClientStream" =>
            /\ closeSends <= 1
            /\ closeSends = 1 => inbound = ClientStreamMsgs
            /\ Len(cGot) <= 1
            /\ tpc = "returned" =>
                  /\ tRes = "nil"
                  /\ inbound = ClientStreamMsgs
                  /\ closeSends = 1
                  /\ cGot = << [fmt |-> "Received %d messages: %v",
                                d |-> 3,
                                v |-> ClientStreamMsgs] >>)
    /\ (mode = "ClientStream" => <>(tpc = "returned"))

C23_Witness ==
    /\ mode = "ClientStream"
    /\ tpc = "returned"
    /\ tRes = "nil"
    /\ Len(inbound) = 3
    /\ Len(cGot) = 1
    /\ cGot[1].d = 3

\* C24. testServerStream against EchoServerStream, with no transport error
\* and no cancellation: the client sends its 1 request, what it has received
\* is always the first responses of Echo #1 .. Echo #5 of that request, in
\* order, and it returns, with nil, only at the end of the stream, having
\* received exactly those 5.
C24_ServerStreamEndToEnd ==
    /\ [](mode = "ServerStream" =>
            /\ Len(inbound) <= 1
            /\ Len(cGot) <= FanOutCount
            /\ \A k \in 1..Len(cGot) :
                  cGot[k] = [fmt |-> "Echo #%d: %s",
                             d |-> k,
                             s |-> ServerStreamReq]
            /\ tpc = "returned" =>
                  /\ tRes = "nil"
                  /\ inbound = <<ServerStreamReq>>
                  /\ Len(cGot) = FanOutCount
                  /\ result = "nil")
    /\ (mode = "ServerStream" => <>(tpc = "returned"))

C24_Witness ==
    /\ mode = "ServerStream"
    /\ tpc = "returned"
    /\ tRes = "nil"
    /\ Len(cGot) = FanOutCount
    /\ cGot[FanOutCount].d = FanOutCount

\* C29. testBidirectionalStreamSync and testBidirectionalStreamAsync: the
\* function never returns nil in a run in which its sender or its receiver
\* put an error on errCh: when it has returned nil, errCh, which only the
\* function reads, is empty.
C29_ErrorsReported ==
    (BidiTest /\ tpc = "returned" /\ tRes = "nil") => errCh = <<>>

\* C30. testBidirectionalStreamSync and testBidirectionalStreamAsync: errCh
\* never holds more than its capacity of 2, a goroutine that is at its write
\* to errCh finds room, also after the function has returned, and each
\* goroutine writes at most once: the write is followed by its return, and a
\* goroutine that is returning or has returned stays so.
C30_ErrChNeverBlocks ==
    /\ [](BidiTest =>
            /\ Len(errCh) <= ErrChCap
            /\ sPc \in {"putctx", "puterr"} => Len(errCh) < ErrChCap
            /\ rPc \in {"putctx", "puterr"} => Len(errCh) < ErrChCap)
    /\ [][Len(errCh') > Len(errCh) =>
            /\ Len(errCh') = Len(errCh) + 1
            /\ \/ sPc \in {"putctx", "puterr"} /\ sPc' = "exit" /\ rPc' = rPc
               \/ rPc \in {"putctx", "puterr"} /\ rPc' = "done" /\ sPc' = sPc]_vars
    /\ [][/\ sPc \in {"exit", "done"} => sPc' \in {"exit", "done"}
          /\ rPc = "done" => rPc' = "done"]_vars

\* Both goroutines wrote their error after the function had returned on
\* ctx.Done: errCh is full and nobody reads it.
C30_Witness ==
    /\ BidiTest
    /\ tpc = "returned"
    /\ tRes = "ctx"
    /\ Len(errCh) = ErrChCap
    /\ sPc = "done"
    /\ rPc = "done"
    /\ tDone

\* C31. testBidirectionalStreamSync and testBidirectionalStreamAsync: the
\* sender goroutine has called CloseSend exactly once when it has returned
\* and not before, it returns only through the step that calls CloseSend,
\* whichever way it left its loop, and once the send side is closed no
\* message is sent.
C31_SenderClosesSendSide ==
    /\ [](BidiTest =>
            /\ closeSends \in {0, 1}
            /\ (closeSends = 1) <=> (sPc = "done"))
    /\ [][(BidiTest /\ sPc # "done" /\ sPc' = "done") =>
            (sPc = "exit" /\ closeSends' = closeSends + 1)]_vars
    /\ [][(BidiTest /\ closeSends >= 1) =>
            (inbound' = inbound /\ closeSends' = closeSends)]_vars

\* The sender left its loop on a failed second Send and has closed the send
\* side.
C31_Witness ==
    /\ BidiTest
    /\ sPc = "done"
    /\ closeSends = 1
    /\ Len(inbound) = 1
    /\ tIdx = 2
    /\ ~ctxDone

\* C32. testClientStream: when the check before the i-th send finds the
\* context cancelled the function returns the context's error at once; a
\* function that has returned the context's error has sent exactly its
\* messages 1..i-1, in order, and has not called CloseAndRecv; and a
\* returned function sends nothing, closes nothing and receives nothing.
C32_ClientStreamStopsOnCancel ==
    /\ []((mode = "ClientStream" /\ tRes = "ctx") =>
            /\ tpc = "returned"
            /\ ctxDone
            /\ tIdx \in 1..Len(ClientStreamMsgs)
            /\ inbound = SubSeq(ClientStreamMsgs, 1, tIdx - 1)
            /\ closeSends = 0
            /\ cGot = <<>>)
    /\ [][(mode = "ClientStream" /\ tpc = "check" /\ ctxDone /\ tpc' # tpc) =>
            (tpc' = "returned" /\ tRes' = "ctx" /\ inbound' = inbound)]_vars
    /\ [][(mode = "ClientStream" /\ tpc = "returned") =>
            UNCHANGED <<tpc, tRes, tIdx, inbound, closeSends, cGot>>]_vars

\* The context was found cancelled before the third send: two messages were
\* sent and the server has received them.
C32_Witness ==
    /\ mode = "ClientStream"
    /\ tpc = "returned"
    /\ tRes = "ctx"
    /\ tIdx = 3
    /\ Len(inbound) = 2
    /\ recvd = 2
    /\ closeSends = 0

\* C33 as stated: no test loop calls its test function once the context is
\* cancelled, a loop that has returned stays returned, and after the
\* cancellation every loop that is not inside its test function eventually
\* returns.
C33_LoopAlwaysReturns ==
    /\ [][\A k \in Loops :
            /\ (pcLoop[k] # "test" /\ pcLoop'[k] = "test") => ~ctxDone
            /\ pcLoop[k] = "done" => pcLoop'[k] = "done"]_vars
    /\ \A k \in Loops :
          (ctxDone /\ pcLoop[k] \in {"check", "wait"}) ~> (pcLoop[k] = "done")

\* C33 amended. No test loop calls its test function once the context is
\* cancelled: with the context cancelled the loop-top check leads to the
\* return and the wait leads to the return or, by its timer, to the loop-top
\* check; a loop that has returned stays returned; and after the
\* cancellation every loop that is not inside its test function eventually
\* returns, unless main's shutdown timeout ends the process first.
C33_LoopReturnsWhileAlive ==
    /\ [][\A k \in Loops :
            /\ (pcLoop[k] # "test" /\ pcLoop'[k] = "test") => ~ctxDone
            /\ (ctxDone /\ pcLoop[k] = "check" /\ pcLoop'[k] # "check") =>
                  pcLoop'[k] = "done"
            /\ (ctxDone /\ pcLoop[k] = "wait" /\ pcLoop'[k] # "wait") =>
                  pcLoop'[k] \in {"done", "check"}
            /\ pcLoop[k] = "done" => pcLoop'[k] = "done"]_vars
    /\ \A k \in Loops :
          (ctxDone /\ pcLoop[k] \in {"check", "wait"}) ~>
              (pcLoop[k] = "done" \/ (pcMain = "completed" /\ timedOut))

\* After the cancellation three loops have returned, one after a failed
\* test, while the fourth is still inside its test function.
C33_Witness ==
    /\ ctxDone
    /\ pcMain = "select"
    /\ pcLoop[1] = "done"
    /\ pcLoop[2] = "done"
    /\ pcLoop[3] = "done"
    /\ pcLoop[4] = "test"
    /\ errLogged[1]

(* ------------------------- the unary examples -------------------------- *)
(* The unary server's main with its Serve goroutine, and the unary client *)
(* whose calls pass through interceptorStat. The listener is taken to     *)
(* keep accepting: Serve ends only because the server was stopped.        *)

\* status.FromError(err): ok for nil and for an error carrying a status.
FromErrorOk(e) == e.kind \in {"nil", "status"}

\* The server answers calls: Serve runs and GracefulStop was not called.
ServerAnswers == uProc = "running" /\ srvPc = "serving" /\ ~stopped

\* What the wrapped invoker can return for a call of method m: the
\* handler's answer (HelloWorld returns nil, WithError a FailedPrecondition
\* status) when the server answers, a transport status or another error at
\* any time.
InvokerCanReturn(m, e) ==
    \/ e = NoErr /\ m = "HelloWorld" /\ ServerAnswers
    \/ e = StatusErr("FailedPrecondition") /\ m = "WithError" /\ ServerAnswers
    \/ e \in {StatusErr("Unavailable"), StatusErr("DeadlineExceeded"), OtherErr}

\* c.HelloWorld(ctx, ...), then c.WithError(ctx, ...): the call enters
\* interceptorStat, the only interceptor of the chain.
UnaryCall ==
    /\ cPc \in {"hello", "withError"}
    /\ iPc = "idle"
    /\ iPc' = "pre"
    /\ iMethod' = (IF cPc = "hello" THEN "HelloWorld" ELSE "WithError")
    /\ iCalls' = 0
    /\ iErr' = NotYet
    /\ iRet' = NotYet
    /\ iLog' = "-"
    /\ UNCHANGED cPc
    /\ UNCHANGED <<streamVars, unaryServerVars>>

\* if err != nil { log.Fatalf("could not greet: %v", err) }
UnaryHelloDone ==
    /\ cPc = "hello"
    /\ iPc = "done"
    /\ cPc' = (IF iRet # NoErr THEN "fatal" ELSE "withError")
    /\ iPc' = "idle"
    /\ UNCHANGED <<iMethod, iCalls, iErr, iRet, iLog>>
    /\ UNCHANGED <<streamVars, unaryServerVars>>

\* if err != nil { st, ok := status.FromError(err); if !ok { log.Fatalf }
\* ... }; then the response is logged and main returns.
UnaryWithErrorDone ==
    /\ cPc = "withError"
    /\ iPc = "done"
    /\ cPc' = (IF iRet # NoErr /\ ~FromErrorOk(iRet) THEN "fatal" ELSE "done")
    /\ iPc' = "idle"
    /\ UNCHANGED <<iMethod, iCalls, iErr, iRet, iLog>>
    /\ UNCHANGED <<streamVars, unaryServerVars>>

\* The unary client's main.
UnaryClientMain == UnaryCall \/ UnaryHelloDone \/ UnaryWithErrorDone

\* Pre-processing: start := time.Now(), the "Calling" log line, the two
\* headers appended to the outgoing context.
InterceptorPre ==
    /\ iPc = "pre"
    /\ iPc' = "invoke"
    /\ UNCHANGED <<cPc, iMethod, iCalls, iErr, iRet, iLog>>
    /\ UNCHANGED <<streamVars, unaryServerVars>>

\* err := invoker(ctx, method, req, reply, cc, opts...)
InterceptorInvoke(e) ==
    /\ iPc = "invoke"
    /\ InvokerCanReturn(iMethod, e)
    /\ iCalls' = iCalls + 1
    /\ iErr' = e
    /\ iPc' = "post"
    /\ UNCHANGED <<cPc, iMethod, iRet, iLog>>
    /\ UNCHANGED <<streamVars, unaryServerVars>>

\* Post-processing: one log line, chosen by err and status.FromError(err).
InterceptorPost ==
    /\ iPc = "post"
    /\ iLog' = (IF iErr # NoErr
                THEN IF FromErrorOk(iErr) THEN "failed: code, message"
                                          ELSE "failed: err"
                ELSE "completed")
    /\ iPc' = "ret"
    /\ UNCHANGED <<cPc, iMethod, iCalls, iErr, iRet>>
    /\ UNCHANGED <<streamVars, unaryServerVars>>

InterceptorReturnsNil ==
    /\ iPc = "ret"
    /\ iRet' = (IF FromErrorOk(iErr) THEN iErr ELSE NoErr)
    /\ iPc' = "done"
    /\ UNCHANGED <<cPc, iMethod, iCalls, iErr, iLog>>
    /\ UNCHANGED <<streamVars, unaryServerVars>>

\* return err
InterceptorReturn ==
    /\ iPc = "ret"
    /\ iRet' = iErr
    /\ iPc' = "done"
    /\ UNCHANGED <<cPc, iMethod, iCalls, iErr, iLog>>
    /\ UNCHANGED <<streamVars, unaryServerVars>>

interceptorStat ==
    \/ InterceptorPre
    \/ \E e \in InvokerErrors : InterceptorInvoke(e)
    \/ InterceptorPost
    \/ InterceptorReturn

\* wg.Add(1); go func() { defer wg.Done(); ... s.Serve(l) ... }()
UnarySpawn ==
    /\ uProc = "running"
    /\ usPc = "spawn"
    /\ usPc' = "notify"
    /\ srvPc' = "start"
    /\ UNCHANGED <<quit, stopped, uProc, signalled>>
    /\ UNCHANGED <<streamVars, unaryClientVars>>

\* quit := make(chan os.Signal, 1); signal.Notify(quit, SIGINT, SIGTERM)
UnaryNotify ==
    /\ uProc = "running"
    /\ usPc = "notify"
    /\ usPc' = "wait"
    /\ UNCHANGED <<srvPc, quit, stopped, uProc, signalled>>
    /\ UNCHANGED <<streamVars, unaryClientVars>>

\* <-quit; log.Println("Shutting down server...")
UnaryQuitRecv ==
    /\ uProc = "running"
    /\ usPc = "wait"
    /\ quit > 0
    /\ quit' = quit - 1
    /\ usPc' = "stop"
    /\ UNCHANGED <<srvPc, stopped, uProc, signalled>>
    /\ UNCHANGED <<streamVars, unaryClientVars>>

\* s.GracefulStop()
UnaryGracefulStop ==
    /\ uProc = "running"
    /\ usPc = "stop"
    /\ stopped' = TRUE
    /\ usPc' = "wgwait"
    /\ UNCHANGED <<srvPc, quit, uProc, signalled>>
    /\ UNCHANGED <<streamVars, unaryClientVars>>

UnaryWgWaitSkipped ==
    /\ uProc = "running"
    /\ usPc = "wgwait"
    /\ usPc' = "returned"
    /\ uProc' = "returned"
    /\ UNCHANGED <<srvPc, quit, stopped, signalled>>
    /\ UNCHANGED <<streamVars, unaryClientVars>>

\* wg.Wait(), then main returns.
UnaryWgWait ==
    /\ uProc = "running"
    /\ usPc = "wgwait"
    /\ srvPc = "returned"
    /\ usPc' = "returned"
    /\ uProc' = "returned"
    /\ UNCHANGED <<srvPc, quit, stopped, signalled>>
    /\ UNCHANGED <<streamVars, unaryClientVars>>

\* The unary server's main.
UnaryServerMain ==
    \/ UnarySpawn
    \/ UnaryNotify
    \/ UnaryQuitRecv
    \/ UnaryGracefulStop
    \/ UnaryWgWait

\* The goroutine calls s.Serve(l). On a server already stopped Serve
\* returns an error at once, and log.Fatalf ends the process.
ServeStart ==
    /\ uProc = "running"
    /\ srvPc = "start"
    /\ IF stopped
       THEN srvPc' = "fatal" /\ uProc' = "fatal"
       ELSE srvPc' = "serving" /\ UNCHANGED uProc
    /\ UNCHANGED <<usPc, quit, stopped, signalled>>
    /\ UNCHANGED <<streamVars, unaryClientVars>>

\* Serve returns nil once the server is stopped; the deferred wg.Done runs.
ServeReturn ==
    /\ uProc = "running"
    /\ srvPc = "serving"
    /\ stopped
    /\ srvPc' = "returned"
    /\ UNCHANGED <<usPc, quit, stopped, uProc, signalled>>
    /\ UNCHANGED <<streamVars, unaryClientVars>>

\* The goroutine running Serve.
ServeGoroutine == ServeStart \/ ServeReturn

\* SIGINT or SIGTERM is sent to the unary server. Before signal.Notify
\* the default disposition ends the process; after it the signal is put
\* into quit unless quit is full.
UnarySignal ==
    /\ uProc = "running"
    /\ signalled' = TRUE
    /\ IF usPc \in {"spawn", "notify"}
       THEN uProc' = "killed" /\ UNCHANGED quit
       ELSE quit' = (IF quit < QuitCap THEN quit + 1 ELSE quit)
            /\ UNCHANGED uProc
    /\ UNCHANGED <<usPc, srvPc, stopped>>
    /\ UNCHANGED <<streamVars, unaryClientVars>>

UnaryInit ==
    /\ mode = "ClientStream"
    /\ inbound = <<>>
    /\ InitLocals

UnaryNext ==
    \/ UnaryClientMain
    \/ interceptorStat
    \/ UnaryServerMain
    \/ ServeGoroutine
    \/ UnarySignal

\* The unary examples; the server's main and its Serve goroutine are
\* scheduled fairly.
UnarySpec ==
    /\ UnaryInit
    /\ [][UnaryNext]_vars
    /\ WF_vars(UnaryServerMain)
    /\ WF_vars(ServeGoroutine)

\* C34: interceptorStat is transparent. In every call it calls the wrapped
\* invoker at most once, exactly once by the time it returns, and what it
\* returns is the invoker's error unchanged: nil exactly when the invoker
\* returned nil, the same status error, the same non-status error.
C34_InterceptorTransparent ==
    /\ iCalls <= 1
    /\ iPc \in {"post", "ret", "done"} => iCalls = 1 /\ iErr \in InvokerErrors
    /\ iPc = "done" => iRet = iErr /\ (iRet = NoErr <=> iErr = NoErr)
    /\ iPc = "done" =>
          iLog = (IF iErr = NoErr THEN "completed"
                  ELSE IF iErr.kind = "status" THEN "failed: code, message"
                  ELSE "failed: err")

\* A WithError call has returned through the non-status-error path.
C34_Witness ==
    /\ iPc = "done"
    /\ iMethod = "WithError"
    /\ iErr = OtherErr
    /\ iRet = OtherErr
    /\ iCalls = 1
    /\ iLog = "failed: err"

\* C35: shutdown order of the unary server. GracefulStop is called only
\* by main after it has taken a signal from quit, and a signal put into
\* quit leads to that call; main returns only after GracefulStop and after
\* the goroutine running Serve has returned; without a signal main never
\* gets past <-quit, so it never returns.
C35_UnaryShutdownOrder ==
    /\ [](stopped => signalled /\ usPc \in {"wgwait", "returned"})
    /\ [](usPc \in {"stop", "wgwait", "returned"} => signalled)
    /\ [](usPc = "returned" => stopped /\ srvPc = "returned")
    /\ [][(usPc = "wait" /\ usPc' # "wait") => (quit > 0 /\ usPc' = "stop")]_vars
    /\ (quit > 0 /\ uProc = "running") ~> stopped

\* The server was signalled, stopped gracefully, Serve returned, and main
\* has returned.
C35_Witness ==
    /\ signalled
    /\ stopped
    /\ srvPc = "returned"
    /\ usPc = "returned"
    /\ uProc = "returned"

=============================================================================
